---- MODULE Spec2Model ----
(***************************************************************************)
(* SociaLens ingestion pipeline: the normalizer and the format parsers of  *)
(* backend/routes/upload.py, the upload handler, the posts/uploads store,  *)
(* the CRUD handlers of backend/routes/data.py, the enrichment worker of  *)
(* backend/workers/tasks.py and the provider services of                   *)
(* backend/services/nlp_service.py and backend/services/cv_service.py.     *)
(*                                                                         *)
(* Python strings are sequences of one-character strings, so that strip,   *)
(* the regular expressions of the text cleaner and strptime are computed   *)
(* character by character.  A Python value is a record                     *)
(* [kind, s, items]: kind is the kind of value (absent = the key is not in *)
(* the mapping), s the characters of a string or the digits of a number,   *)
(* items the entries of a list.                                            *)
(***************************************************************************)
EXTENDS Integers, Sequences, FiniteSets, TLC

VARIABLES
    rec,            \* normalizer on its own: the raw record handed to normalize
    out,            \* normalizer on its own: the result of normalize_post_data
    infile,         \* parsers on their own: the file handed to a format parser
    parsed,         \* parsers on their own: the result of the format parser
    now,            \* what datetime.utcnow() returns
    req,            \* req[r]: the r-th upload request: its place in upload_file,
                    \*   its file, its file id, its response
    mem,            \* mem[r]: the list `posts` of request r, the object that
                    \*   upload_file hands to insert_many and to the background task
    uploads_coll,   \* the uploads collection, in insertion order
    posts_coll,     \* the posts collection, in insertion order
    disk,           \* the file ids that have a directory under uploads/
    task,           \* task[r]: the process_upload_task call(s) for request r
    faults,         \* how many store operations have failed so far
    deletes,        \* how many delete_post requests have been served
    nlp_service,    \* the module global nlp_service of services/nlp_service.py
    cv_service      \* the module global cv_service of services/cv_service.py

vars == <<rec, out, infile, parsed, now, req, mem, uploads_coll, posts_coll, disk,
          task, faults, deletes, nlp_service, cv_service>>
hvars == <<rec, out, infile, parsed>>
svars == <<req, mem, uploads_coll, posts_coll, disk, task, faults, deletes>>
mvars == <<nlp_service, cv_service>>

----------------------------------------------------------------------------
(* Python values *)

NoFields == [type |-> [kind |-> "absent", s |-> <<>>],
             url |-> [kind |-> "absent", s |-> <<>>],
             src |-> [kind |-> "absent", s |-> <<>>],
             filename |-> [kind |-> "absent", s |-> <<>>]]

Atom(k, chars) == [kind |-> k, s |-> chars]
AAbsent == Atom("absent", <<>>)
ANull == Atom("null", <<>>)
AStr(chars) == Atom("str", chars)

\* an entry of a list value: a dict with the four keys parse_media reads, or a
\* bare string, or a number
ItemDict(f) == [kind |-> "dict", s |-> <<>>, f |-> f]
ItemStr(chars) == [kind |-> "str", s |-> chars, f |-> NoFields]
ItemNum(chars) == [kind |-> "num", s |-> chars, f |-> NoFields]

Val(k, chars, items) == [kind |-> k, s |-> chars, items |-> items]
Absent == Val("absent", <<>>, <<>>)
Null == Val("null", <<>>, <<>>)
Str(chars) == Val("str", chars, <<>>)
Num(chars) == Val("num", chars, <<>>)
List(items) == Val("list", <<>>, items)
Dict == Val("dict", <<>>, <<>>)      \* a non-empty mapping used as a value

\* bool(v): None, "", 0, [] are false; a key that is absent reads as None
Truthy(v) ==
    CASE v.kind \in {"absent", "null"} -> FALSE
      [] v.kind = "str" -> v.s # <<>>
      [] v.kind = "num" -> v.s # <<"0">>
      [] v.kind = "list" -> v.items # <<>>
      [] v.kind = "dict" -> TRUE

\* str(v) for the kinds the inputs put where str() is applied
PyStr(v) ==
    CASE v.kind \in {"str", "num"} -> v.s
      [] v.kind \in {"null", "absent"} -> <<"N", "o", "n", "e">>

\* post.get(k): None when the key is absent
Get(post, k) == IF post[k].kind = "absent" THEN Null ELSE post[k]

\* post.get(k, default)
GetD(post, k, default) == IF post[k].kind = "absent" THEN default ELSE post[k]

\* a or b
Or(a, b) == IF Truthy(a) THEN a ELSE b

----------------------------------------------------------------------------
(* Strings *)

IsSpace(c) == c \in {" ", "\t", "\n"}

Lowers == <<"a", "b", "c", "d", "e", "f", "g", "h", "i", "j", "k", "l", "m", "n", "o", "p", "q", "r", "s", "t", "u", "v", "w", "x", "y", "z">>
Uppers == <<"A", "B", "C", "D", "E", "F", "G", "H", "I", "J", "K", "L", "M", "N", "O", "P", "Q", "R", "S", "T", "U", "V", "W", "X", "Y", "Z">>

\* str.lower(), one character
LowerChar(c) ==
    IF \E i \in 1..26 : Uppers[i] = c THEN Lowers[CHOOSE i \in 1..26 : Uppers[i] = c] ELSE c
ToLower(s) == [i \in 1..Len(s) |-> LowerChar(s[i])]

RECURSIVE LStrip(_)
LStrip(s) == IF s # <<>> /\ IsSpace(Head(s)) THEN LStrip(Tail(s)) ELSE s

RECURSIVE RStrip(_)
RStrip(s) ==
    IF s # <<>> /\ IsSpace(s[Len(s)]) THEN RStrip(SubSeq(s, 1, Len(s) - 1)) ELSE s

\* str.strip()
Strip(s) == RStrip(LStrip(s))

\* sep.join(parts)
RECURSIVE Join(_, _)
Join(sep, parts) ==
    IF parts = <<>> THEN <<>>
    ELSE IF Len(parts) = 1 THEN parts[1]
    ELSE parts[1] \o sep \o Join(sep, Tail(parts))

----------------------------------------------------------------------------
(* datetime.strptime, as parse_timestamp uses it *)

Digits == <<"0", "1", "2", "3", "4", "5", "6", "7", "8", "9">>
IsDigit(c) == \E i \in 1..10 : Digits[i] = c
DigitVal(c) == (CHOOSE i \in 1..10 : Digits[i] = c) - 1

\* int(s) of a run of digits, a leading space skipped (the " [1-9]" day)
RECURSIVE IntOf(_)
IntOf(s) ==
    IF s = <<>> THEN 0
    ELSE IF s[Len(s)] = " " THEN 0
    ELSE IntOf(SubSeq(s, 1, Len(s) - 1)) * 10 + DigitVal(s[Len(s)])

At(s, p) == IF p >= 1 /\ p <= Len(s) THEN s[p] ELSE "<end>"
DigAt(s, p) == IsDigit(At(s, p))
In(s, p, lo, hi) == DigAt(s, p) /\ DigitVal(At(s, p)) >= lo /\ DigitVal(At(s, p)) <= hi

\* the number of characters from p on that satisfy a run of digits / of spaces
RECURSIVE DigitRun(_, _, _)
DigitRun(s, p, max) ==
    IF max = 0 \/ ~DigAt(s, p) THEN 0 ELSE 1 + DigitRun(s, p + 1, max - 1)

RECURSIVE SpaceRun(_, _)
SpaceRun(s, p) == IF p <= Len(s) /\ IsSpace(s[p]) THEN 1 + SpaceRun(s, p + 1) ELSE 0

\* n, n-1, ..., 1: a greedy quantifier's choices in the order it tries them
RECURSIVE Down(_)
Down(n) == IF n <= 0 THEN <<>> ELSE <<n>> \o Down(n - 1)

\* The lengths one element of a format can match at position p of s, in the
\* order the regular expression of _strptime tries them (re.IGNORECASE):
\*   %Y \d\d\d\d            %m 1[0-2]|0[1-9]|[1-9]
\*   %d 3[0-1]|[1-2]\d|0[1-9]|[1-9]| [1-9]
\*   %H 2[0-3]|[0-1]\d|\d   %M [0-5]\d|\d    %S 6[0-1]|[0-5]\d|\d
\*   %f [0-9]{1,6}          whitespace \s+   any other character itself
Alts(e, s, p) ==
    CASE e = "%Y" ->
           IF DigitRun(s, p, 4) = 4 THEN <<4>> ELSE <<>>
      [] e = "%m" ->
           (IF (At(s, p) = "1" /\ In(s, p + 1, 0, 2)) \/ (At(s, p) = "0" /\ In(s, p + 1, 1, 9))
            THEN <<2>> ELSE <<>>)
           \o (IF In(s, p, 1, 9) THEN <<1>> ELSE <<>>)
      [] e = "%d" ->
           (IF (At(s, p) = "3" /\ In(s, p + 1, 0, 1)) \/ (In(s, p, 1, 2) /\ DigAt(s, p + 1))
               \/ (At(s, p) = "0" /\ In(s, p + 1, 1, 9))
            THEN <<2>> ELSE <<>>)
           \o (IF In(s, p, 1, 9) THEN <<1>> ELSE <<>>)
           \o (IF At(s, p) = " " /\ In(s, p + 1, 1, 9) THEN <<2>> ELSE <<>>)
      [] e = "%H" ->
           (IF (At(s, p) = "2" /\ In(s, p + 1, 0, 3)) \/ (In(s, p, 0, 1) /\ DigAt(s, p + 1))
            THEN <<2>> ELSE <<>>)
           \o (IF DigAt(s, p) THEN <<1>> ELSE <<>>)
      [] e = "%M" ->
           (IF In(s, p, 0, 5) /\ DigAt(s, p + 1) THEN <<2>> ELSE <<>>)
           \o (IF DigAt(s, p) THEN <<1>> ELSE <<>>)
      [] e = "%S" ->
           (IF (At(s, p) = "6" /\ In(s, p + 1, 0, 1)) \/ (In(s, p, 0, 5) /\ DigAt(s, p + 1))
            THEN <<2>> ELSE <<>>)
           \o (IF DigAt(s, p) THEN <<1>> ELSE <<>>)
      [] e = "%f" -> Down(DigitRun(s, p, 6))
      [] e = " " -> Down(SpaceRun(s, p))
      [] OTHER -> IF LowerChar(At(s, p)) = LowerChar(e) THEN <<1>> ELSE <<>>

NoMatch == [ok |-> FALSE, end |-> 0, caps |-> <<>>]

\* re.match of the format's regular expression at position p: the first match in
\* the expression's order of preference, with the text each element matched
RECURSIVE MatchFrom(_, _, _, _, _)
RECURSIVE TryAlts(_, _, _, _, _, _)
MatchFrom(fmt, k, s, p, caps) ==
    IF k > Len(fmt) THEN [ok |-> TRUE, end |-> p, caps |-> caps]
    ELSE TryAlts(Alts(fmt[k], s, p), fmt, k, s, p, caps)
TryAlts(alts, fmt, k, s, p, caps) ==
    IF alts = <<>> THEN NoMatch
    ELSE LET r == MatchFrom(fmt, k + 1, s, p + Head(alts),
                            Append(caps, SubSeq(s, p, p + Head(alts) - 1)))
         IN IF r.ok THEN r ELSE TryAlts(Tail(alts), fmt, k, s, p, caps)

\* the text the directive d of fmt matched, <<>> when fmt has no such directive
Cap(fmt, caps, d) ==
    IF \E k \in 1..Len(fmt) : fmt[k] = d
    THEN caps[CHOOSE k \in 1..Len(fmt) : fmt[k] = d] ELSE <<>>

RECURSIVE PadRight(_, _)
PadRight(s, n) == IF Len(s) >= n THEN s ELSE PadRight(Append(s, "0"), n)

IsLeap(y) == (y % 4 = 0 /\ y % 100 # 0) \/ y % 400 = 0
DaysIn(y, m) ==
    CASE m \in {4, 6, 9, 11} -> 30
      [] m = 2 -> IF IsLeap(y) THEN 29 ELSE 28
      [] OTHER -> 31

\* a datetime; kind "now" is the value datetime.utcnow() returned at time t
DateTime(k, Y, mo, d, H, Mi, S, us, t) ==
    [kind |-> k, Y |-> Y, mo |-> mo, d |-> d, H |-> H, Mi |-> Mi, S |-> S, us |-> us, t |-> t]
UtcNow(t) == DateTime("now", 0, 0, 0, 0, 0, 0, 0, t)
NoDateTime == DateTime("none", 0, 0, 0, 0, 0, 0, 0, 0)

\* datetime.strptime(s, fmt) for a string s: a ValueError (err) when the expression
\* does not match, when unconverted data remains, or when the fields are no date
DateOfMatch(s, fmt, r) ==
    LET Y == IntOf(Cap(fmt, r.caps, "%Y"))
        mo == IF Cap(fmt, r.caps, "%m") = <<>> THEN 1 ELSE IntOf(Cap(fmt, r.caps, "%m"))
        d == IF Cap(fmt, r.caps, "%d") = <<>> THEN 1 ELSE IntOf(Cap(fmt, r.caps, "%d"))
        H == IntOf(Cap(fmt, r.caps, "%H"))
        Mi == IntOf(Cap(fmt, r.caps, "%M"))
        S == IntOf(Cap(fmt, r.caps, "%S"))
        us == IF Cap(fmt, r.caps, "%f") = <<>> THEN 0
              ELSE IntOf(PadRight(Cap(fmt, r.caps, "%f"), 6))
    IN IF ~r.ok \/ r.end # Len(s) + 1 THEN [err |-> TRUE, dt |-> NoDateTime]
       ELSE IF Y < 1 \/ d > DaysIn(Y, mo) \/ S > 59 THEN [err |-> TRUE, dt |-> NoDateTime]
       ELSE [err |-> FALSE, dt |-> DateTime("parsed", Y, mo, d, H, Mi, S, us, 0)]

Strptime(s, fmt) == DateOfMatch(s, fmt, MatchFrom(fmt, 1, s, 1, <<>>))

\* formats without the date-only format
Formats_NoDateOnly ==
    << <<"%Y", "-", "%m", "-", "%d", "T", "%H", ":", "%M", ":", "%S", "Z">>,
       <<"%Y", "-", "%m", "-", "%d", "T", "%H", ":", "%M", ":", "%S", ".", "%f", "Z">>,
       <<"%Y", "-", "%m", "-", "%d", " ", "%H", ":", "%M", ":", "%S">> >>

\* formats (upload.py:214-219)
Formats ==
    << <<"%Y", "-", "%m", "-", "%d", "T", "%H", ":", "%M", ":", "%S", "Z">>,
       <<"%Y", "-", "%m", "-", "%d", "T", "%H", ":", "%M", ":", "%S", ".", "%f", "Z">>,
       <<"%Y", "-", "%m", "-", "%d", " ", "%H", ":", "%M", ":", "%S">>,
       <<"%Y", "-", "%m", "-", "%d">> >>

\* the for-loop of parse_timestamp from format k on: the first format that parses
RECURSIVE FirstFormat(_, _, _)
RECURSIVE ReturnOrContinue(_, _, _, _)
FirstFormat(s, k, t) ==
    IF k > Len(Formats) THEN UtcNow(t)
    ELSE ReturnOrContinue(Strptime(s, Formats[k]), s, k, t)
ReturnOrContinue(r, s, k, t) == IF r.err THEN FirstFormat(s, k + 1, t) ELSE r.dt

\* parse_timestamp(v) at time t.  strptime raises TypeError, which the loop does
\* not catch, when its argument is not a string: raised is then TRUE.
parse_timestamp(v, t) ==
    IF ~Truthy(v) THEN [raised |-> FALSE, dt |-> UtcNow(t)]
    ELSE IF v.kind # "str" THEN [raised |-> TRUE, dt |-> NoDateTime]
    ELSE [raised |-> FALSE, dt |-> FirstFormat(v.s, 1, t)]

----------------------------------------------------------------------------
(* parse_media and normalize_post_data *)

\* what str(uuid.uuid4()) returns the n-th time: a token no input contains
Uuid(n) == <<"<uuid4>", Digits[(n \div 10) + 1], Digits[(n % 10) + 1]>>

\* the values of PlatformType (schemas/models.py:6-11)
PlatformType == {<<"t", "w", "i", "t", "t", "e", "r">>, <<"i", "n", "s", "t", "a", "g", "r", "a", "m">>, <<"y", "o", "u", "t", "u", "b", "e">>, <<"f", "a", "c", "e", "b", "o", "o", "k">>, <<"l", "i", "n", "k", "e", "d", "i", "n">>}

S_image == <<"i", "m", "a", "g", "e">>
S_unknown == <<"u", "n", "k", "n", "o", "w", "n">>

\* a canonical media item; tags, caption and similarity_score are absent until
\* the enrichment worker sets them
NoTags == [kind |-> "absent", items |-> <<>>]
MediaItem(type, url, filename) ==
    [type |-> type, url |-> url, filename |-> filename,
     tags |-> NoTags, caption |-> AAbsent, similarity_score |-> AAbsent]

\* d.get(k, default) on the fields of a list entry
FGet(a, default) == IF a.kind = "absent" THEN default ELSE a

\* the media items of the entries of a list, in order (upload.py:237-250)
RECURSIVE MediaOfItems(_)
MediaOfItems(items) ==
    IF items = <<>> THEN <<>>
    ELSE LET item == Head(items)
             this ==
               CASE item.kind = "dict" ->
                      << MediaItem(FGet(item.f.type, AStr(S_image)),
                                   FGet(item.f.url, FGet(item.f.src, AStr(<<>>))),
                                   FGet(item.f.filename, AStr(<<>>))) >>
                 [] item.kind = "str" -> << MediaItem(AStr(S_image), AStr(item.s), AStr(<<>>)) >>
                 [] OTHER -> <<>>
         IN this \o MediaOfItems(Tail(items))

\* parse_media without the branch for a bare string (upload.py:251-256)
parse_media_NoBareString(media_data) ==
    IF ~Truthy(media_data) THEN <<>>
    ELSE IF media_data.kind = "list" THEN MediaOfItems(media_data.items)
    ELSE <<>>

parse_media(media_data) ==
    IF ~Truthy(media_data) THEN <<>>
    ELSE IF media_data.kind = "list" THEN MediaOfItems(media_data.items)
    ELSE IF media_data.kind = "str"
         THEN << MediaItem(AStr(S_image), AStr(media_data.s), AStr(<<>>)) >>
    ELSE <<>>

\* the keys of a raw record that the code reads, one key it does not read
\* (likes), and the key None under which csv.DictReader puts surplus cells
Keys == {"post_id", "id", "raw_text", "text", "content", "message",
         "title", "description", "caption", "platform",
         "timestamp", "created_at", "date", "user_id", "author", "username",
         "media", "images", "videos", "likes", "<None>"}

\* the keys left out of metadata (upload.py:193)
ConsumedKeys == {"platform", "id", "post_id", "text", "content", "message",
                 "timestamp", "created_at", "date", "user_id", "author", "username",
                 "media", "images", "videos", "raw_text"}

EmptyRecord == [k \in Keys |-> Absent]

\* the truthy ones of title, description, caption, in that order (upload.py:172-178)
RECURSIVE SummaryParts(_, _)
SummaryParts(post, ks) ==
    IF ks = <<>> THEN <<>>
    ELSE (IF Truthy(Get(post, Head(ks))) THEN << Get(post, Head(ks)) >> ELSE <<>>)
         \o SummaryParts(post, Tail(ks))

\* "Post from {platform} platform" (upload.py:184)
PostFrom(post) ==
    <<"P", "o", "s", "t", " ", "f", "r", "o", "m", " ">> \o PyStr(GetD(post, "platform", Str(S_unknown))) \o <<" ", "p", "l", "a", "t", "f", "o", "r", "m">>

\* TextOf without the minimal description of upload.py:184
TextOf_NoMinimalDescription(post, raw, parts) ==
    IF Truthy(raw) THEN [raised |-> FALSE, text |-> raw]
    ELSE IF parts # <<>>
         THEN IF \E i \in 1..Len(parts) : parts[i].kind # "str"
              THEN [raised |-> TRUE, text |-> Str(<<>>)]
              ELSE [raised |-> FALSE,
                    text |-> Str(Join(<<" ", "|", " ">>, [i \in 1..Len(parts) |-> parts[i].s]))]
    ELSE [raised |-> FALSE, text |-> Str(<<>>)]

\* the text of a record (upload.py:167-184): the first truthy one of raw_text,
\* text, content, message; else the summary parts joined with " | " (str.join
\* raises TypeError when a part is not a string); else the minimal description
TextOf(post, raw, parts) ==
       IF Truthy(raw) THEN [raised |-> FALSE, text |-> raw]
       ELSE IF parts # <<>>
            THEN IF \E i \in 1..Len(parts) : parts[i].kind # "str"
                 THEN [raised |-> TRUE, text |-> Str(<<>>)]
                 ELSE [raised |-> FALSE,
                       text |-> Str(Join(<<" ", "|", " ">>, [i \in 1..Len(parts) |-> parts[i].s]))]
       ELSE [raised |-> FALSE, text |-> Str(PostFrom(post))]

ResolveText(post) ==
    TextOf(post,
           Or(Or(Or(Or(Get(post, "raw_text"), Get(post, "text")),
                    Get(post, "content")), Get(post, "message")), Str(<<>>)),
           SummaryParts(post, <<"title", "description", "caption">>))

\* the value handed to parse_timestamp (upload.py:190)
TimestampField(post) ==
    GetD(post, "timestamp", GetD(post, "created_at", GetD(post, "date", Str(<<>>))))

NoPost ==
    [platform |-> Absent, post_id |-> <<>>, raw_text |-> <<>>, timestamp |-> NoDateTime,
     user_id |-> <<>>, media |-> <<>>, metadata |-> EmptyRecord]

Accepted(p) == [res |-> "post", post |-> p]
Rejected == [res |-> "rejected", post |-> NoPost]

\* The body of normalize_post_data once the id, the text and the timestamp are
\* computed.  An exception anywhere in the body is caught and the record rejected
\* (upload.py:203-206); raw_text.strip() raises when the text is not a string.
Normalized(post, post_id, text, ts) ==
    LET normalized ==
          [platform |-> GetD(post, "platform", Str(S_unknown)),
           post_id |-> PyStr(post_id),
           raw_text |-> text.text.s,
           timestamp |-> ts.dt,
           user_id |-> PyStr(GetD(post, "user_id",
                               GetD(post, "author", GetD(post, "username", Str(<<>>))))),
           media |-> parse_media(GetD(post, "media",
                               GetD(post, "images", GetD(post, "videos", List(<<>>))))),
           metadata |-> [k \in Keys |-> IF k \in ConsumedKeys THEN Absent ELSE post[k]]]
    IN IF text.raised \/ ts.raised \/ text.text.kind # "str" THEN Rejected
       ELSE IF Strip(text.text.s) = <<>> THEN Rejected
       ELSE Accepted(normalized)

\* normalize_post_data(post) at time t, uuid being what str(uuid.uuid4()) returns
normalize_post_data(post, t, uuid) ==
    Normalized(post,
               Or(Or(Get(post, "post_id"), Get(post, "id")), Str(uuid)),
               ResolveText(post),
               parse_timestamp(TimestampField(post), t))

----------------------------------------------------------------------------
(* parse_json_file and parse_csv_file *)

\* An uploaded file.  For a .json file, root is what json.loads returns:
\*   "list"    a top-level array, entries its elements
\*   "posts"   an object whose key posts holds the array entries
\*   "posts_scalar"  an object whose key posts holds a number
\*   "object"  an object without the key posts;  "scalar" a number or string
\*   "invalid" json.loads raises
\* An element of the array is a mapping (kind "dict", rec its raw record) or a
\* bare value (kind "other").  For a .csv file, root is "csv" (decodable text,
\* header and rows its cells) or "undecodable" (reading as utf-8 raises).
\* For a .zip file, root is "zip" (members the files in it) or "badzip" (ZipFile
\* raises).  Any other extension is a file the upload handler does not accept.
JsonFile(root, entries) ==
    [ext |-> ".json", root |-> root, entries |-> entries, header |-> <<>>, rows |-> <<>>,
     members |-> <<>>]
CsvFile(root, header, rows) ==
    [ext |-> ".csv", root |-> root, entries |-> <<>>, header |-> header, rows |-> rows,
     members |-> <<>>]
ZipFile(root, members) ==
    [ext |-> ".zip", root |-> root, entries |-> <<>>, header |-> <<>>, rows |-> <<>>,
     members |-> members]
OtherFile(ext) ==
    [ext |-> ext, root |-> "bytes", entries |-> <<>>, header |-> <<>>, rows |-> <<>>,
     members |-> <<>>]
NoFile == OtherFile("none")

EntryDict(r) == [kind |-> "dict", rec |-> r]
EntryOther == [kind |-> "other", rec |-> EmptyRecord]

Raised == [status |-> "raised", posts |-> <<>>]
Returned(posts) == [status |-> "ok", posts |-> posts]

\* the progress line (upload.py:110) calls post.get on the element and slices
\* post.get('raw_text', 'no_text'): it raises when the element is no mapping, and
\* when raw_text is present and is neither a string nor a list
ProgressLineRaises(e) ==
    \/ e.kind # "dict"
    \/ e.rec["raw_text"].kind \notin {"absent", "str", "list"}

\* normalized_posts given the result n for one element and the result of the
\* loop over the elements after it
AppendIfAccepted(n, rest) ==
    IF rest.status = "raised" THEN Raised
    ELSE IF n.res = "post" THEN Returned(<<n.post>> \o rest.posts)
    ELSE rest

\* the normalization loop (upload.py:108-115) from element i on; the i-th call
\* of uuid4 returns Uuid(base + i)
RECURSIVE NormalizeEntries(_, _, _, _)
NormalizeEntries(entries, i, t, base) ==
    IF i > Len(entries) THEN Returned(<<>>)
    ELSE IF ProgressLineRaises(entries[i]) THEN Raised
    ELSE AppendIfAccepted(normalize_post_data(entries[i].rec, t, Uuid(base + i)),
                          NormalizeEntries(entries, i + 1, t, base))

\* parse_json_file (upload.py:88-118)
parse_json_file(file, t, base) ==
    CASE file.root = "invalid" -> Raised                      \* json.loads
      [] file.root \in {"object", "scalar"} -> Raised          \* ValueError
      [] file.root = "posts_scalar" -> Raised                  \* len(posts)
      [] file.root \in {"list", "posts"} -> NormalizeEntries(file.entries, 1, t, base)

\* the row csv.DictReader yields for the cells of one line: the cells keyed by
\* the header, None for the keys the line has no cell for, the surplus cells as
\* a list under the key None
CellItems(cells) == [i \in 1..Len(cells) |-> ItemStr(cells[i])]
DictRow(header, cells) ==
    [k \in Keys |->
        IF k = "<None>"
        THEN IF Len(cells) > Len(header)
             THEN List(CellItems(SubSeq(cells, Len(header) + 1, Len(cells))))
             ELSE Absent
        ELSE IF \E i \in 1..Len(header) : header[i] = k
        THEN LET i == CHOOSE j \in 1..Len(header) :
                        header[j] = k /\ \A m \in (j + 1)..Len(header) : header[m] # k
             IN IF i <= Len(cells) THEN Str(cells[i]) ELSE Null
        ELSE Absent]

\* if normalized_post: posts.append(normalized_post)
PostIfAccepted(n) == IF n.res = "post" THEN <<n.post>> ELSE <<>>

\* the reader loop (upload.py:134-137); a line without cells is skipped by
\* DictReader
RECURSIVE NormalizeRows(_, _, _, _, _)
NormalizeRows(header, rows, i, t, base) ==
    IF i > Len(rows) THEN <<>>
    ELSE (IF rows[i] = <<>> THEN <<>>
          ELSE PostIfAccepted(normalize_post_data(DictRow(header, rows[i]), t, Uuid(base + i))))
         \o NormalizeRows(header, rows, i + 1, t, base)

\* parse_csv_file (upload.py:120-139)
parse_csv_file(file, t, base) ==
    IF file.root = "undecodable" THEN Raised
    ELSE Returned(NormalizeRows(file.header, file.rows, 1, t, base))

----------------------------------------------------------------------------
(* process_text_simple *)

IsWordChar(c) ==
    \/ \E i \in 1..26 : Lowers[i] = c \/ Uppers[i] = c
    \/ IsDigit(c)
    \/ c = "_"

StartsWith(s, p, lit) ==
    p + Len(lit) - 1 <= Len(s) /\ SubSeq(s, p, p + Len(lit) - 1) = lit

RECURSIVE NonSpaceRun(_, _)
NonSpaceRun(s, p) ==
    IF p <= Len(s) /\ ~IsSpace(s[p]) THEN 1 + NonSpaceRun(s, p + 1) ELSE 0

RECURSIVE WordRun(_, _)
WordRun(s, p) == IF p <= Len(s) /\ IsWordChar(s[p]) THEN 1 + WordRun(s, p + 1) ELSE 0

\* where a match of http[s]?://\S+ that starts at p ends (the position after
\* it), 0 when there is none
UrlEnd(s, p) ==
    LET q == p + 4
        r == IF At(s, q) = "s" /\ StartsWith(s, q + 1, <<":", "/", "/">>) THEN q + 4
             ELSE IF StartsWith(s, q, <<":", "/", "/">>) THEN q + 3
             ELSE 0
    IN IF StartsWith(s, p, <<"h", "t", "t", "p">>) /\ r > 0 /\ NonSpaceRun(s, r) >= 1
       THEN r + NonSpaceRun(s, r) ELSE 0

\* re.sub(r'http[s]?://\S+', '', s) from position p on
RECURSIVE RemoveUrls(_, _)
RemoveUrls(s, p) ==
    IF p > Len(s) THEN <<>>
    ELSE IF UrlEnd(s, p) > 0 THEN RemoveUrls(s, UrlEnd(s, p))
    ELSE <<s[p]>> \o RemoveUrls(s, p + 1)

\* re.sub(r'@\w+', '', s) from position p on
RECURSIVE RemoveMentions(_, _)
RemoveMentions(s, p) ==
    IF p > Len(s) THEN <<>>
    ELSE IF s[p] = "@" /\ WordRun(s, p + 1) >= 1
         THEN RemoveMentions(s, p + 1 + WordRun(s, p + 1))
    ELSE <<s[p]>> \o RemoveMentions(s, p + 1)

\* re.sub(r'#(\w+)', r'\1', s) from position p on
RECURSIVE RemoveHashSigns(_, _)
RemoveHashSigns(s, p) ==
    IF p > Len(s) THEN <<>>
    ELSE IF s[p] = "#" /\ WordRun(s, p + 1) >= 1
         THEN SubSeq(s, p + 1, p + WordRun(s, p + 1))
              \o RemoveHashSigns(s, p + 1 + WordRun(s, p + 1))
    ELSE <<s[p]>> \o RemoveHashSigns(s, p + 1)

\* re.sub(r'\s+', ' ', s) from position p on
RECURSIVE CollapseSpaces(_, _)
CollapseSpaces(s, p) ==
    IF p > Len(s) THEN <<>>
    ELSE IF IsSpace(s[p]) THEN <<" ">> \o CollapseSpaces(s, p + SpaceRun(s, p))
    ELSE <<s[p]>> \o CollapseSpaces(s, p + 1)

\* the cleaning steps (tasks.py:102-105)
CleanText(text) ==
    Strip(CollapseSpaces(RemoveHashSigns(RemoveMentions(RemoveUrls(text, 1), 1), 1), 1))

\* word in text
Contains(text, word) == \E p \in 1..Len(text) : StartsWith(text, p, word)

keywords == << <<"t", "e", "c", "h">>, <<"f", "o", "o", "d">>, <<"t", "r", "a", "v", "e", "l">>, <<"m", "u", "s", "i", "c">>, <<"s", "p", "o", "r", "t">>, <<"n", "e", "w", "s">> >>
positive_words == << <<"g", "o", "o", "d">>, <<"g", "r", "e", "a", "t">>, <<"a", "w", "e", "s", "o", "m", "e">>, <<"l", "o", "v", "e">>, <<"h", "a", "p", "p", "y">>, <<"e", "x", "c", "e", "l", "l", "e", "n", "t">> >>
negative_words == << <<"b", "a", "d">>, <<"t", "e", "r", "r", "i", "b", "l", "e">>, <<"h", "a", "t", "e">>, <<"a", "w", "f", "u", "l">>, <<"s", "a", "d">>, <<"d", "i", "s", "a", "p", "p", "o", "i", "n", "t", "i", "n", "g">> >>

\* sum(1 for word in words if word in text)
CountIn(words, text) == Cardinality({i \in 1..Len(words) : Contains(text, words[i])})

\* the keywords found in the text, in the order of the list (tasks.py:111-115)
EntitiesOf(text) ==
    SelectSeq(keywords, LAMBDA w : Contains(ToLower(text), ToLower(w)))

\* the sentiment label and its confidence in hundredths: 70 is 0.7, 50 is 0.5
\* (tasks.py:121-133)
SentimentOfCounts(positive_count, negative_count) ==
    IF positive_count > negative_count THEN [label |-> <<"p", "o", "s", "i", "t", "i", "v", "e">>, confidence |-> 70]
    ELSE IF negative_count > positive_count THEN [label |-> <<"n", "e", "g", "a", "t", "i", "v", "e">>, confidence |-> 70]
    ELSE [label |-> <<"n", "e", "u", "t", "r", "a", "l">>, confidence |-> 50]

SentimentOf(text) ==
    SentimentOfCounts(CountIn(positive_words, ToLower(text)),
                      CountIn(negative_words, ToLower(text)))

\* the dict process_text_simple returns (tasks.py:135-141)
TextResult(cleaned_text, entities, s) ==
    [cleaned_text |-> cleaned_text,
     language |-> <<"e", "n">>,
     entities |-> entities,
     sentiment |-> s.label,
     sentiment_confidence |-> s.confidence]

process_text_simple(text) == TextResult(CleanText(text), EntitiesOf(text), SentimentOf(text))

----------------------------------------------------------------------------
(* Post dicts, the posts collection and the per-post work of the worker *)

\* the _id insert_many gives the i-th post of request r; NoId: the dict has no _id
ObjectId(r, i) == [req |-> r, idx |-> i]
NoId == ObjectId(0, 0)

NoList == [kind |-> "absent", items |-> <<>>]
NoNumber == [kind |-> "absent", n |-> 0]

\* the dict normalize_post_data returns: the keys _id, cleaned_text, language,
\* entities, sentiment, sentiment_confidence are not in it yet
PostDict(p) ==
    [platform |-> p.platform, post_id |-> p.post_id, raw_text |-> p.raw_text,
     timestamp |-> p.timestamp, user_id |-> p.user_id, media |-> p.media,
     metadata |-> p.metadata, _id |-> NoId,
     cleaned_text |-> AAbsent, language |-> AAbsent, entities |-> NoList,
     sentiment |-> AAbsent, sentiment_confidence |-> NoNumber]

PostDicts(ps) == [i \in 1..Len(ps) |-> PostDict(ps[i])]

\* insert_many(posts) of request r: each dict gets its _id, in place, and the
\* collection gets a copy of each (upload.py:76)
WithIds(ps, r) == [i \in 1..Len(ps) |-> [ps[i] EXCEPT !._id = ObjectId(r, i)]]

\* post.update({...}) with the result of process_text_simple (tasks.py:50-59)
WithTextResult(post, text_result) ==
       [post EXCEPT !.cleaned_text = AStr(text_result.cleaned_text),
                    !.language = AStr(text_result.language),
                    !.entities = [kind |-> "list", items |-> text_result.entities],
                    !.sentiment = AStr(text_result.sentiment),
                    !.sentiment_confidence = [kind |-> "num", n |-> text_result.sentiment_confidence]]

UpdateText(post) == WithTextResult(post, process_text_simple(post.raw_text))

\* ProcessMediaItem with tags appended to the item's tags instead of set
ProcessMediaItem_AppendTags(media_item) ==
    IF media_item.type = AStr(S_image)
    THEN [media_item EXCEPT !.tags = [kind |-> "list", items |-> media_item.tags.items \o << S_image >>],
                            !.caption = AStr(<<"I", "m", "a", "g", "e", " ", "c", "o", "n", "t", "e", "n", "t">>),
                            !.similarity_score = AStr(<<"0", ".", "5">>)]
    ELSE media_item

\* media_item.update({...}) for the items of type image (tasks.py:65-74)
ProcessMediaItem(media_item) ==
    IF media_item.type = AStr(S_image)
    THEN [media_item EXCEPT !.tags = [kind |-> "list", items |-> << S_image >>],
                            !.caption = AStr(<<"I", "m", "a", "g", "e", " ", "c", "o", "n", "t", "e", "n", "t">>),
                            !.similarity_score = AStr(<<"0", ".", "5">>)]
    ELSE media_item

\* the post dict after the in-memory steps of one iteration (tasks.py:50-76)
ProcessMedia(p) == [p EXCEPT !.media = [i \in 1..Len(p.media) |-> ProcessMediaItem(p.media[i])]]

EnrichPost(post) == ProcessMedia(UpdateText(post))

\* the position of the document a filter {"post_id": id} selects: the first one
\* in the collection's order; 0 when none matches
FirstMatch(coll, id) ==
    IF \E i \in 1..Len(coll) : coll[i].post_id = id
    THEN CHOOSE i \in 1..Len(coll) :
            coll[i].post_id = id /\ \A j \in 1..(i - 1) : coll[j].post_id # id
    ELSE 0

\* {"$set": post} on a document: every key of the dict is written
SetFields(doc, post) == IF post._id = NoId THEN [post EXCEPT !._id = doc._id] ELSE post

\* update_one({"post_id": post["post_id"]}, {"$set": post}) (tasks.py:79-82):
\* without upsert, nothing is written when no document matches; the server
\* refuses an update that would change _id (raised)
UpdateAt(coll, post, i) ==
       IF i = 0 THEN [raised |-> FALSE, matched |-> 0, coll |-> coll]
       ELSE IF post._id # NoId /\ post._id # coll[i]._id
            THEN [raised |-> TRUE, matched |-> 0, coll |-> coll]
       ELSE [raised |-> FALSE, matched |-> 1,
             coll |-> [coll EXCEPT ![i] = SetFields(coll[i], post)]]

update_one(coll, post) == UpdateAt(coll, post, FirstMatch(coll, post.post_id))

\* delete_one({"post_id": id}) (data.py:156)
DeleteAt(coll, i) ==
    IF i = 0 THEN coll ELSE SubSeq(coll, 1, i - 1) \o SubSeq(coll, i + 1, Len(coll))

delete_one(coll, id) == DeleteAt(coll, FirstMatch(coll, id))

\* {"$set": post_data} for the dict of a PUT request: the keys it holds are
\* written, the others stay (data.py:137-143; _id has been deleted from it)
SetGiven(doc, post_data) ==
    [doc EXCEPT !.raw_text = IF "raw_text" \in post_data.keys THEN post_data.raw_text ELSE @,
                !.platform = IF "platform" \in post_data.keys THEN post_data.platform ELSE @]

EditAt(coll, post_data, i) ==
    IF i = 0 THEN coll ELSE [coll EXCEPT ![i] = SetGiven(coll[i], post_data)]

\* update_one({"post_id": post_id}, {"$set": post_data}) (data.py:140-143)
update_post(coll, post_id, post_data) == EditAt(coll, post_data, FirstMatch(coll, post_id))

\* process_single_post_task on the document find_one returns (tasks.py:152-170):
\* the text fields are computed from its raw_text and the document, _id
\* included, is written back with $set
ReprocessAt(coll, i) ==
    IF i = 0 THEN coll ELSE [coll EXCEPT ![i] = UpdateText(coll[i])]

process_single_post(coll, post_id) == ReprocessAt(coll, FirstMatch(coll, post_id))

\* parse_zip_file (upload.py:141-160): the archive is extracted, then every
\* member named .json or .csv is parsed in the order os.walk yields them; an
\* exception of a member's parser is not caught here
ParseDataFile(m, t, base) ==
    CASE m.ext = ".json" -> parse_json_file(m, t, base)
      [] m.ext = ".csv" -> parse_csv_file(m, t, base)
      [] OTHER -> Returned(<<>>)

\* posts.extend(...) unless a parser raised
Extend(this, rest) ==
    IF this.status = "raised" \/ rest.status = "raised" THEN Raised
    ELSE Returned(this.posts \o rest.posts)

RECURSIVE ParseMembers(_, _, _, _)
ParseMembers(members, i, t, base) ==
    IF i > Len(members) THEN Returned(<<>>)
    ELSE Extend(ParseDataFile(members[i], t, base),
                ParseMembers(members, i + 1, t,
                             base + Len(members[i].entries) + Len(members[i].rows)))

parse_zip_file(file, t, base) ==
    IF file.root = "badzip" THEN Raised
    ELSE ParseMembers(file.members, 1, t, base)

\* the dispatch on the extension (upload.py:52-57)
ParseUpload(file, t, base) ==
    IF file.ext = ".zip" THEN parse_zip_file(file, t, base)
    ELSE ParseDataFile(file, t, base)

----------------------------------------------------------------------------
(* The providers: services/nlp_service.py and services/cv_service.py *)

MaxCalls == 2        \* calls of the methods of each service

\* the values of SentimentType (schemas/models.py:13-16)
SentimentType == {<<"p", "o", "s", "i", "t", "i", "v", "e">>, <<"n", "e", "g", "a", "t", "i", "v", "e">>, <<"n", "e", "u", "t", "r", "a", "l">>}

\* a sentiment result; confidence in hundredths: 70 is 0.7
SentimentResult(sentiment, confidence) == [sentiment |-> sentiment, confidence |-> confidence]
NoSentiment == SentimentResult(<<>>, 0)

\* the module before it is imported: the global does not exist yet
NoNlpService ==
    [imported |-> FALSE, _initialized |-> FALSE, nlp |-> FALSE, sentiment_analyzer |-> FALSE,
     attempts |-> 0, calls |-> 0, last |-> NoSentiment]
NoCvService == [imported |-> FALSE, clip_model |-> FALSE, loads |-> 0, calls |-> 0]

\* NLPService() (nlp_service.py:13-17): nlp and sentiment_analyzer are None
NLPService == [NoNlpService EXCEPT !.imported = TRUE]

\* CVService() (cv_service.py:15-26): from_pretrained is called in __init__;
\* clip_model is None when it raised
CVService(outcome) ==
    [NoCvService EXCEPT !.imported = TRUE, !.clip_model = (outcome = "ok"), !.loads = 1]

\* What the libraries do during one run of _initialize_models: spacy.load and
\* pipeline(...) return, raise OSError or raise another exception; the
\* spacy.load of the OSError handler returns or raises.
\* pipeline(...) is reached when spacy.load returned, the second spacy.load
\* when one of the two raised OSError.
LoadOutcomes ==
    { env \in [spacy : {"ok", "OSError", "Exception"},
               pipeline : {"ok", "OSError", "Exception"}, reload : {"ok", "raises"}] :
        /\ env.spacy # "ok" => env.pipeline = "ok"
        /\ (env.spacy # "OSError" /\ env.pipeline # "OSError") => env.reload = "ok" }

\* the service after the handler of OSError (nlp_service.py:38-43): the model
\* is downloaded and loaded again; an exception of that load leaves the method
InstallAndReload(svc, env) ==
    IF env.reload = "ok"
    THEN [raised |-> FALSE, svc |-> [svc EXCEPT !.nlp = TRUE, !._initialized = TRUE]]
    ELSE [raised |-> TRUE, svc |-> svc]

\* _create_fallback_services (nlp_service.py:49-52)
create_fallback_services(svc) == [svc EXCEPT !._initialized = TRUE]

\* the try block and its handlers (nlp_service.py:24-47)
LoadModels(svc, env) ==
    CASE env.spacy = "OSError" -> InstallAndReload(svc, env)
      [] env.spacy = "Exception" -> [raised |-> FALSE, svc |-> create_fallback_services(svc)]
      [] env.spacy = "ok" /\ env.pipeline = "OSError" ->
            InstallAndReload([svc EXCEPT !.nlp = TRUE], env)
      [] env.spacy = "ok" /\ env.pipeline = "Exception" ->
            [raised |-> FALSE, svc |-> create_fallback_services([svc EXCEPT !.nlp = TRUE])]
      [] OTHER ->
            [raised |-> FALSE,
             svc |-> [svc EXCEPT !.nlp = TRUE, !.sentiment_analyzer = TRUE,
                                 !._initialized = TRUE]]

\* _initialize_models (nlp_service.py:19-47); attempts counts the runs that
\* get past the test of _initialized
initialize_models(svc, env) ==
    IF svc._initialized THEN [raised |-> FALSE, svc |-> svc]
    ELSE LoadModels([svc EXCEPT !.attempts = svc.attempts + 1], env)

\* What self.sentiment_analyzer(text) gives: the label and the score of the
\* best result, the score being a probability (in hundredths), or an exception
AnalyzerOutcomes ==
    {[raises |-> FALSE, label |-> l, score |-> s] :
        l \in {"POSITIVE", "NEGATIVE", "LABEL_2"}, s \in {50, 100}}
    \cup {[raises |-> TRUE, label |-> "", score |-> 0]}

\* sentiment_map without the default of get
sentiment_map_NoDefault(label) ==
    CASE label = "POSITIVE" -> <<"p", "o", "s", "i", "t", "i", "v", "e">>
      [] label = "NEGATIVE" -> <<"n", "e", "g", "a", "t", "i", "v", "e">>
      [] OTHER -> <<"L", "A", "B", "E", "L", "_", "2">>

\* sentiment_map.get(best_result['label'], 'neutral') (nlp_service.py:129-135)
sentiment_map(label) ==
    CASE label = "POSITIVE" -> <<"p", "o", "s", "i", "t", "i", "v", "e">>
      [] label = "NEGATIVE" -> <<"n", "e", "g", "a", "t", "i", "v", "e">>
      [] OTHER -> <<"n", "e", "u", "t", "r", "a", "l">>

\* analyze_sentiment after _initialize_models (nlp_service.py:118-140)
SentimentAfter(init, ans) ==
    IF init.raised \/ ~init.svc.sentiment_analyzer \/ ans.raises
    THEN [init.svc EXCEPT !.last = SentimentResult(<<"n", "e", "u", "t", "r", "a", "l">>, 0)]
    ELSE [init.svc EXCEPT !.last = SentimentResult(sentiment_map(ans.label), ans.score)]

\* analyze_sentiment (nlp_service.py:113-140)
analyze_sentiment(svc, text, env, ans) ==
    IF text = <<>> THEN [svc EXCEPT !.last = SentimentResult(<<"n", "e", "u", "t", "r", "a", "l">>, 0)]
    ELSE SentimentAfter(initialize_models(svc, env), ans)

\* extract_entities (nlp_service.py:91-111), as far as the service goes
extract_entities(svc, text, env) ==
    IF text = <<>> THEN svc ELSE initialize_models(svc, env).svc

\* import services.nlp_service (nlp_service.py:158)
ImportNlpService ==
    /\ ~nlp_service.imported
    /\ nlp_service' = NLPService
    /\ UNCHANGED <<hvars, now, svars, cv_service>>

\* import services.cv_service (cv_service.py:205)
ImportCvService(outcome) ==
    /\ ~cv_service.imported
    /\ cv_service' = CVService(outcome)
    /\ UNCHANGED <<hvars, now, svars, nlp_service>>

\* nlp_service.analyze_sentiment(text)
AnalyzeSentiment(text, env, ans) ==
    /\ nlp_service.imported
    /\ nlp_service.calls < MaxCalls
    /\ nlp_service' = [analyze_sentiment(nlp_service, text, env, ans)
                          EXCEPT !.calls = nlp_service.calls + 1]
    /\ UNCHANGED <<hvars, now, svars, cv_service>>

\* nlp_service.extract_entities(text)
ExtractEntities(text, env) ==
    /\ nlp_service.imported
    /\ nlp_service.calls < MaxCalls
    /\ nlp_service' = [extract_entities(nlp_service, text, env)
                          EXCEPT !.calls = nlp_service.calls + 1]
    /\ UNCHANGED <<hvars, now, svars, cv_service>>

\* cv_service.process_image(...) (cv_service.py:192-202): no method loads a model
ProcessImage ==
    /\ cv_service.imported
    /\ cv_service.calls < MaxCalls
    /\ cv_service' = [cv_service EXCEPT !.calls = cv_service.calls + 1]
    /\ UNCHANGED <<hvars, now, svars, nlp_service>>

----------------------------------------------------------------------------
(* upload_file, the background task and delete_post as a state machine *)

MaxUploads == 2      \* upload requests
MaxFaults == 1       \* store operations that fail
MaxDeletes == 1      \* delete_post requests
MaxRuns == 2         \* invocations of process_upload_task per batch

Reqs == 1..MaxUploads

\* allowed_extensions with .txt in it
allowed_extensions_WithTxt == {".json", ".csv", ".zip", ".txt"}

\* upload.py:29
allowed_extensions == {".json", ".csv", ".zip"}

NoResponse == [code |-> 0, detail |-> "", total_posts |-> 0, processing_status |-> ""]
HTTPException(code, detail) ==
    [code |-> code, detail |-> detail, total_posts |-> 0, processing_status |-> ""]
UploadResponse(n) ==
    [code |-> 200, detail |-> "File uploaded successfully", total_posts |-> n,
     processing_status |-> "processing"]

IdleRequest == [pc |-> "idle", file |-> NoFile, file_id |-> <<>>, response |-> NoResponse]
NoTask == [pc |-> "none", i |-> 0, processed_count |-> 0, matched |-> 0, logged |-> 0,
           results |-> <<>>]

\* the uuid4 calls of request r return Uuid(UuidBase(r)) for the file id and
\* Uuid(UuidBase(r) + i) in the i-th call of normalize_post_data
UuidBase(r) == 10 * r

\* a request arrives with its file; requests are numbered in order of arrival
UploadArrive(r, f) ==
    /\ req[r].pc = "idle"
    /\ IF r = 1 THEN TRUE ELSE req[r - 1].pc # "idle"
    /\ req' = [req EXCEPT ![r] = [IdleRequest EXCEPT !.pc = "validate", !.file = f]]
    /\ UNCHANGED <<hvars, mvars, now, mem, uploads_coll, posts_coll, disk, task, faults, deletes>>

\* upload.py:25-36
UploadReject(r) ==
    /\ req[r].pc = "validate"
    /\ req[r].file.ext \notin allowed_extensions
    /\ req' = [req EXCEPT ![r].pc = "failed",
                          ![r].response = HTTPException(400, "Unsupported file type")]
    /\ UNCHANGED <<hvars, mvars, now, mem, uploads_coll, posts_coll, disk, task, faults, deletes>>

\* upload.py:38-47
UploadSave(r) ==
    /\ req[r].pc = "validate"
    /\ req[r].file.ext \in allowed_extensions
    /\ req' = [req EXCEPT ![r].pc = "parse", ![r].file_id = Uuid(UuidBase(r))]
    /\ disk' = disk \cup {Uuid(UuidBase(r))}
    /\ UNCHANGED <<hvars, mvars, now, mem, uploads_coll, posts_coll, task, faults, deletes>>

\* AfterParse with the parser's exception swallowed
AfterParse_Swallow(rq, res) == [rq EXCEPT !.pc = "insert_upload"]

\* AfterParse with an empty list of posts treated as a parse error
AfterParse_RejectEmpty(rq, res) ==
    IF res.status = "raised" \/ res.posts = <<>>
    THEN [rq EXCEPT !.pc = "failed", !.response = HTTPException(400, "Error parsing file")]
    ELSE [rq EXCEPT !.pc = "insert_upload"]

\* where upload_file goes after the try block (upload.py:51-59): on with the
\* posts, or out with a 400
AfterParse(rq, res) ==
    IF res.status = "raised"
    THEN [rq EXCEPT !.pc = "failed", !.response = HTTPException(400, "Error parsing file")]
    ELSE [rq EXCEPT !.pc = "insert_upload"]

\* upload.py:49-59
Parsed(r, res) ==
    /\ req' = [req EXCEPT ![r] = AfterParse(req[r], res)]
    /\ mem' = [mem EXCEPT ![r] = PostDicts(res.posts)]

UploadParse(r) ==
    /\ req[r].pc = "parse"
    /\ Parsed(r, ParseUpload(req[r].file, now, UuidBase(r)))
    /\ UNCHANGED <<hvars, mvars, now, uploads_coll, posts_coll, disk, task, faults, deletes>>

\* a store operation raises: the handler ends with a 500
StoreFails(r) ==
    /\ faults < MaxFaults
    /\ faults' = faults + 1
    /\ req' = [req EXCEPT ![r].pc = "failed",
                          ![r].response = HTTPException(500, "Internal Server Error")]

\* upload_metadata with the status the response reports
upload_metadata_Processing(file_id, posts) ==
    [file_id |-> file_id, total_posts |-> Len(posts), status |-> "processing"]

\* the dict upload_metadata (upload.py:63-70)
upload_metadata(file_id, posts) ==
    [file_id |-> file_id, total_posts |-> Len(posts), status |-> "uploaded"]

\* insert_one that stores the document twice
insert_one_Twice(coll, doc) == coll \o <<doc, doc>>

\* db[UPLOADS_COLLECTION].insert_one(upload_metadata) (upload.py:72)
insert_one(coll, doc) == Append(coll, doc)

\* upload.py:61-72
UploadInsertUpload(r) ==
    /\ req[r].pc = "insert_upload"
    /\ \/ /\ uploads_coll' = insert_one(uploads_coll, upload_metadata(req[r].file_id, mem[r]))
          /\ req' = [req EXCEPT ![r].pc = "insert_posts"]
          /\ UNCHANGED faults
       \/ /\ StoreFails(r)
          /\ UNCHANGED uploads_coll
    /\ UNCHANGED <<hvars, mvars, now, mem, posts_coll, disk, task, deletes>>

\* upload.py:74-76
UploadInsertPosts(r) ==
    /\ req[r].pc = "insert_posts"
    /\ \/ /\ mem[r] # <<>>
          /\ mem' = [mem EXCEPT ![r] = WithIds(mem[r], r)]
          /\ posts_coll' = posts_coll \o WithIds(mem[r], r)
          /\ req' = [req EXCEPT ![r].pc = "add_task"]
          /\ UNCHANGED faults
       \/ /\ mem[r] # <<>>
          /\ StoreFails(r)
          /\ UNCHANGED <<mem, posts_coll>>
       \/ /\ mem[r] = <<>>
          /\ req' = [req EXCEPT ![r].pc = "add_task"]
          /\ UNCHANGED <<mem, posts_coll, faults>>
    /\ UNCHANGED <<hvars, mvars, now, uploads_coll, disk, task, deletes>>

\* upload.py:78-79: background_tasks.add_task(process_upload_task, file_id, posts)
UploadAddTask(r) ==
    /\ req[r].pc = "add_task"
    /\ task' = [task EXCEPT ![r].pc = "queued"]
    /\ req' = [req EXCEPT ![r].pc = "return"]
    /\ UNCHANGED <<hvars, mvars, now, mem, uploads_coll, posts_coll, disk, faults, deletes>>

\* upload.py:81-86
UploadRespond(r) ==
    /\ req[r].pc = "return"
    /\ req' = [req EXCEPT ![r].pc = "done", ![r].response = UploadResponse(Len(mem[r]))]
    /\ UNCHANGED <<hvars, mvars, now, mem, uploads_coll, posts_coll, disk, task, faults, deletes>>

\* BackgroundReady for a task that may start as soon as it is added
BackgroundReady_Eager(r) == task[r].pc = "queued"

\* a task given to BackgroundTasks runs once the response of its request has
\* been sent
BackgroundReady(r) == task[r].pc = "queued" /\ req[r].pc = "done"

\* tasks.py:38-45
TaskStart(r) ==
    /\ BackgroundReady(r)
    /\ task' = [task EXCEPT ![r].pc = "running", ![r].i = 1, ![r].processed_count = 0]
    /\ UNCHANGED <<hvars, mvars, now, req, mem, uploads_coll, posts_coll, disk, faults, deletes>>

\* the task after an iteration that ran through (tasks.py:84)
AfterUpdate(t, matched_count) ==
    [t EXCEPT !.i = t.i + 1, !.processed_count = t.processed_count + 1,
              !.matched = t.matched + matched_count]

\* AfterException with the loop left at the first exception
AfterException_Abort(t) == [t EXCEPT !.pc = "done", !.logged = t.logged + 1]

\* the task after an iteration that raised (tasks.py:86-88): log and continue
AfterException(t) == [t EXCEPT !.i = t.i + 1, !.logged = t.logged + 1]

\* the update of the store with the enriched dict and what follows it
\* (tasks.py:78-88): it goes through, the server refuses it, or the store fails
Persist(r, u) ==
    \/ /\ ~u.raised
       /\ posts_coll' = u.coll
       /\ task' = [task EXCEPT ![r] = AfterUpdate(task[r], u.matched)]
       /\ UNCHANGED faults
    \/ /\ u.raised
       /\ task' = [task EXCEPT ![r] = AfterException(task[r])]
       /\ UNCHANGED <<posts_coll, faults>>
    \/ /\ faults < MaxFaults
       /\ faults' = faults + 1
       /\ task' = [task EXCEPT ![r] = AfterException(task[r])]
       /\ UNCHANGED posts_coll

\* one iteration of the loop over the posts (tasks.py:47-88)
Iteration(r, post) ==
    /\ mem' = [mem EXCEPT ![r][task[r].i] = post]
    /\ Persist(r, update_one(posts_coll, post))

TaskPost(r) ==
    /\ task[r].pc = "running"
    /\ task[r].i <= Len(mem[r])
    /\ Iteration(r, EnrichPost(mem[r][task[r].i]))
    /\ UNCHANGED <<hvars, mvars, now, req, uploads_coll, disk, deletes>>

\* tasks.py:90-91
TaskFinish(r) ==
    /\ task[r].pc = "running"
    /\ task[r].i > Len(mem[r])
    /\ task' = [task EXCEPT
                  ![r].pc = "done",
                  ![r].results = Append(task[r].results,
                      [status |-> "completed", processed_count |-> task[r].processed_count])]
    /\ UNCHANGED <<hvars, mvars, now, req, mem, uploads_coll, posts_coll, disk, faults, deletes>>

\* process_upload_task is invoked again with the same file id and posts
\* (tasks.py:35-36)
TaskReinvoke(r) ==
    /\ task[r].pc = "done"
    /\ Len(task[r].results) < MaxRuns
    /\ task' = [task EXCEPT ![r].pc = "running", ![r].i = 1, ![r].processed_count = 0]
    /\ UNCHANGED <<hvars, mvars, now, req, mem, uploads_coll, posts_coll, disk, faults, deletes>>

\* delete_post(post_id) for an id that is in the collection (data.py:150-161)
DeletePost(id) ==
    /\ deletes < MaxDeletes
    /\ FirstMatch(posts_coll, id) # 0
    /\ posts_coll' = delete_one(posts_coll, id)
    /\ deletes' = deletes + 1
    /\ UNCHANGED <<hvars, mvars, now, req, mem, uploads_coll, disk, task, faults>>

\* update_post(post_id, post_data) for an id that is in the collection
\* (data.py:130-148)
UpdatePost(id, post_data) ==
    /\ FirstMatch(posts_coll, id) # 0
    /\ posts_coll' = update_post(posts_coll, id, post_data)
    /\ UNCHANGED <<hvars, mvars, now, req, mem, uploads_coll, disk, task, faults, deletes>>

\* process_upload_task fails before its loop, get_sync_database() raising
\* (tasks.py:38-45, 93-95)
TaskError(r) ==
    /\ BackgroundReady(r)
    /\ faults < MaxFaults
    /\ faults' = faults + 1
    /\ task' = [task EXCEPT
                  ![r].pc = "done",
                  ![r].results = Append(task[r].results,
                      [status |-> "error", processed_count |-> 0])]
    /\ UNCHANGED <<hvars, mvars, now, req, mem, uploads_coll, posts_coll, disk, deletes>>

\* process_single_post_task(post_id) for an id that is in the collection
\* (tasks.py:143-176)
ProcessSinglePost(id) ==
    /\ FirstMatch(posts_coll, id) # 0
    /\ posts_coll' = process_single_post(posts_coll, id)
    /\ UNCHANGED <<hvars, mvars, now, req, mem, uploads_coll, disk, task, faults, deletes>>

----------------------------------------------------------------------------
(* Inputs *)

MaxNow == 2          \* clock readings 1..MaxNow
MaxEntries == 3      \* elements of a JSON array
MaxRows == 2         \* lines of a CSV file after the header

\* raw records that vary the text candidates and the summary fields
TextRecords ==
    { [EmptyRecord EXCEPT !["raw_text"] = a, !["text"] = b, !["content"] = c,
                          !["message"] = d, !["title"] = e, !["caption"] = f,
                          !["platform"] = g, !["timestamp"] = h] :
        a \in {Absent, Str(<<>>), Str(<<" ">>), Str(<<"h", "i">>), Num(<<"5">>), Null},
        b \in {Absent, Str(<<"y", "o">>)},
        c \in {Absent, Str(<<"c">>)},
        d \in {Absent, Str(<<" ", "m", " ">>)},
        e \in {Absent, Str(<<"T">>), Num(<<"7">>)},
        f \in {Absent, Str(<<"C">>)},
        g \in {Absent, Str(<<"t", "w">>), Null},
        h \in {Absent, Num(<<"1", "7", "0", "0", "0", "0", "0", "0", "0", "0">>)} }

\* raw records that vary the fields other than the text
FieldRecords ==
    { [EmptyRecord EXCEPT !["raw_text"] = a, !["timestamp"] = b, !["created_at"] = c,
                          !["date"] = d, !["media"] = e, !["user_id"] = f,
                          !["id"] = g, !["likes"] = h] :
        a \in {Absent, Str(<<"h", "i">>)},
        b \in {Absent, Null, Str(<<>>), Str(<<"2", "0", "2", "4", "-", "0", "1", "-", "0", "2">>), Str(<<"y", "e", "s", "t", "e", "r", "d", "a", "y">>),
               Str(<<"2", "0", "2", "4", "-", "0", "2", "-", "3", "0">>), Num(<<"1", "7", "0", "0", "0", "0", "0", "0", "0", "0">>), Num(<<"0">>),
               List(<<ItemStr(<<"2", "0", "2", "4", "-", "0", "1", "-", "0", "2">>)>>)},
        c \in {Absent, Str(<<"2", "0", "2", "4", "-", "0", "1", "-", "0", "2", "T", "0", "3", ":", "0", "4", ":", "0", "5", "Z">>)},
        d \in {Absent, Str(<<"2", "0", "2", "4", "-", "1", "-", "2", " ", "3", ":", "4", ":", "5">>)},
        e \in {Absent, Num(<<"5">>), Str(<<"u">>),
               List(<<ItemDict([NoFields EXCEPT !.src = AStr(<<"s">>)]), ItemNum(<<"1">>), ItemStr(<<"v">>)>>)},
        f \in {Absent, Num(<<"4", "2">>)},
        g \in {Absent, Num(<<"1">>), Str(<<"1">>)},
        h \in {Absent, Num(<<"3">>)} }

\* values of media, images or videos
MediaValues ==
    {Absent, Null, Str(<<>>), Str(<<"u">>), Num(<<"5">>), Num(<<"0">>), Dict, List(<<>>),
     List(<<ItemStr(<<"u">>), ItemStr(<<"v">>)>>),
     List(<<ItemDict([NoFields EXCEPT !.type = AStr(<<"v", "i", "d", "e", "o">>), !.url = AStr(<<"v">>),
                                      !.filename = AStr(<<"f", ".", "m", "p", "4">>)]),
            ItemDict([NoFields EXCEPT !.src = AStr(<<"s">>)])>>),
     List(<<ItemDict([NoFields EXCEPT !.url = AStr(<<"u">>), !.src = AStr(<<"s">>)]),
            ItemNum(<<"1">>), ItemStr(<<"w">>), ItemDict(NoFields)>>),
     List(<<ItemDict([NoFields EXCEPT !.url = ANull, !.src = AStr(<<"s">>), !.type = ANull])>>),
     List(<<ItemNum(<<"1">>)>>)}

\* raw records with text that vary the media fields
MediaRecords ==
    { [EmptyRecord EXCEPT !["raw_text"] = Str(<<"h", "i">>), !["media"] = a, !["images"] = b,
                          !["videos"] = c] :
        a \in MediaValues, b \in {Absent, Str(<<"i">>)}, c \in {Absent, List(<<ItemStr(<<"c">>)>>)} }

\* strings handed to parse_timestamp
TimestampStrings ==
    {<<>>, <<"2", "0", "2", "4", "-", "0", "1", "-", "0", "2", "T", "0", "3", ":", "0", "4", ":", "0", "5", "Z">>, <<"2", "0", "2", "4", "-", "0", "1", "-", "0", "2", "T", "0", "3", ":", "0", "4", ":", "0", "5", ".", "5", "Z">>, <<"2", "0", "2", "4", "-", "0", "1", "-", "0", "2", "T", "0", "3", ":", "0", "4", ":", "0", "5", ".", "1", "2", "3", "4", "5", "6", "Z">>,
     <<"2", "0", "2", "4", "-", "0", "1", "-", "0", "2", " ", "0", "3", ":", "0", "4", ":", "0", "5">>, <<"2", "0", "2", "4", "-", "0", "1", "-", "0", "2">>, <<"2", "0", "2", "4", "-", "1", "-", "2">>, <<"2", "0", "2", "4", "-", "0", "2", "-", "2", "9">>, <<"2", "0", "2", "3", "-", "0", "2", "-", "2", "9">>,
     <<"2", "0", "2", "4", "-", "0", "2", "-", "3", "0">>, <<"y", "e", "s", "t", "e", "r", "d", "a", "y">>, <<"2", "0", "2", "4", "-", "0", "1", "-", "0", "2", "T", "0", "3", ":", "0", "4", ":", "0", "5">>, <<"2", "0", "2", "4", "-", "0", "1", "-", "0", "2", "T", "0", "3", ":", "0", "4", ":", "0", "5", "+", "0", "0", ":", "0", "0">>,
     <<"2", "0", "2", "4", "-", "0", "1", "-", "0", "2", "t", "0", "3", ":", "0", "4", ":", "0", "5", "z">>, <<"2", "0", "2", "4", "-", "0", "1", "-", "0", "2", " ", " ", "0", "3", ":", "0", "4", ":", "0", "5">>, <<" ", "2", "0", "2", "4", "-", "0", "1", "-", "0", "2">>, <<"2", "0", "2", "4", "-", "0", "1", "-", "0", "2", " ">>,
     <<"0", "0", "0", "0", "-", "0", "1", "-", "0", "1">>, <<"2", "0", "2", "4", "-", "1", "3", "-", "0", "1">>, <<"2", "0", "2", "4", "-", "0", "1", "-", "0", "2", "T", "2", "4", ":", "0", "0", ":", "0", "0", "Z">>, <<"2", "0", "2", "4", "-", "0", "1", "-", "0", "2", "T", "0", "3", ":", "0", "4", ":", "6", "0", "Z">>,
     <<"2", "0", "2", "4", "-", "0", "1", "-", "0", "2", "T", "0", "3", ":", "0", "4", ":", "6", "1", "Z">>, <<"2", "0", "2", "4", "0", "1", "0", "2">>, <<"1", "7", "0", "0", "0", "0", "0", "0", "0", "0">>, <<"2", "0", "2", "4", "-", "0", "1", "-", "0", "2", "T", "0", "3", ":", "0", "4", ":", "0", "5", ".", "1", "2", "3", "4", "5", "6", "7", "Z">>,
     <<"2", "0", "2", "4", "-", "0", "1", "-", "0", "2", " ", "3", ":", "4", ":", "5">>, <<"1", "2", "/", "3", "1", "/", "2", "0", "2", "4">>, <<"2", "0", "2", "4", "-", "0", "1", "-", "0", "2", "T", "0", "3", ":", "0", "4", ":", "0", "5", ".", "Z">>,
     <<"2", "0", "2", "4", "-", "0", "1", "-", "0", "2", "\t", "0", "3", ":", "0", "4", ":", "0", "5">>,
     <<"2", "0", "2", "4", "-", "0", "0", "-", "1", "0">>, <<"2", "0", "2", "4", "-", "0", "1", "-", "0", "0">>, <<"2", "0", "2", "4", "-", "0", "1", "-", "3", "2">>, <<"0", "2", "0", "2", "4", "-", "0", "1", "-", "0", "2">>, <<"2", "0", "2", "4", "-", "0", "1", "-", "0", "2", "Z">>}

\* raw records with text that vary the timestamp string and the key it is under
TimestampRecords ==
    { [EmptyRecord EXCEPT !["raw_text"] = Str(<<"h", "i">>), ![k] = Str(s)] :
        k \in {"timestamp", "created_at", "date"}, s \in TimestampStrings }

RawRecords == TextRecords \cup FieldRecords \cup MediaRecords \cup TimestampRecords

\* records of the files
R_love == [EmptyRecord EXCEPT !["id"] = Str(<<"1">>), !["text"] = Str(<<"I", " ", "l", "o", "v", "e", " ", "#", "t", "e", "c", "h">>),
                              !["platform"] = Str(<<"t", "w">>)]
R_bad == [EmptyRecord EXCEPT !["content"] = Str(<<"b", "a", "d", " ", "d", "a", "y", " ", "h", "t", "t", "p", ":", "/", "/", "t", ".", "c", "o", "/", "x">>),
                             !["media"] = List(<<ItemStr(<<"u">>),
                                 ItemDict([NoFields EXCEPT !.type = AStr(<<"v", "i", "d", "e", "o">>),
                                                           !.url = AStr(<<"v">>)])>>)]
R_sad == [EmptyRecord EXCEPT !["id"] = Num(<<"1">>), !["text"] = Str(<<"s", "o", " ", "s", "a", "d", " ", "@", "b", "o", "b">>)]
R_nulltext == [EmptyRecord EXCEPT !["raw_text"] = Null, !["text"] = Str(<<"y", "o">>)]
R_numtext == [EmptyRecord EXCEPT !["raw_text"] = Num(<<"5">>)]
R_epoch == [EmptyRecord EXCEPT !["text"] = Str(<<"h", "i">>), !["timestamp"] = Num(<<"1", "7", "0", "0", "0", "0", "0", "0", "0", "0">>)]
R_blank == [EmptyRecord EXCEPT !["text"] = Str(<<" ", " ">>)]

JsonEntries == {EntryDict(R_love), EntryDict(R_bad), EntryDict(R_nulltext),
                EntryDict(R_numtext), EntryDict(R_epoch), EntryDict(R_blank), EntryOther}

\* the sequences over S of length at most n
SeqsUpTo(S, n) == UNION {[1..k -> S] : k \in 0..n}

CsvRows == { <<"a", "b">>, <<"a">>, <<"a", "b", "c">>, <<>> }
CsvLines == { [i \in 1..Len(cells) |-> <<cells[i]>>] : cells \in CsvRows }
CsvHeader == <<"platform", "content">>

\* the files handed to the parsers on their own
ParserFiles ==
    { JsonFile(root, es) : root \in {"list", "posts"}, es \in SeqsUpTo(JsonEntries, MaxEntries) }
    \cup { JsonFile(root, <<>>) : root \in {"invalid", "object", "scalar", "posts_scalar"} }
    \cup { CsvFile("csv", CsvHeader, rows) : rows \in SeqsUpTo(CsvLines, MaxRows) }
    \cup { CsvFile("undecodable", <<>>, <<>>) }
    \cup { ZipFile("zip", <<JsonFile("list", <<EntryDict(R_love)>>), m>>) :
             m \in {CsvFile("csv", CsvHeader, << <<<<"t", "w">>, <<"h", "e", "l", "l", "o">>>>, <<<<"x">>>> >>),
                    CsvFile("undecodable", <<>>, <<>>),
                    JsonFile("invalid", <<>>),
                    JsonFile("list", <<EntryDict(R_love), EntryOther>>),
                    OtherFile(".png")} }
    \cup { ZipFile("zip", <<>>), ZipFile("badzip", <<>>) }

\* the files uploaded
F_two == JsonFile("list", <<EntryDict(R_love), EntryDict(R_bad)>>)
F_same == JsonFile("posts", <<EntryDict(R_sad), EntryDict(R_love)>>)
F_nulltext == JsonFile("list", <<EntryDict(R_love), EntryDict(R_nulltext)>>)
F_object == JsonFile("object", <<>>)
F_csv == CsvFile("csv", CsvHeader, << <<<<"t", "w">>, <<"g", "r", "e", "a", "t", " ", "n", "e", "w", "s">>>>, <<<<"x">>>> >>)
F_empty == JsonFile("list", <<>>)
F_txt == OtherFile(".txt")
F_zip == ZipFile("zip", <<JsonFile("list", <<EntryDict(R_sad)>>), OtherFile(".png"),
                          CsvFile("csv", CsvHeader, << <<<<"t", "w">>, <<"h", "e", "l", "l", "o">>>> >>)>>)
F_badzip == ZipFile("badzip", <<>>)

UploadFiles == {F_two, F_same, F_nulltext, F_object, F_csv, F_empty, F_txt, F_zip, F_badzip}

\* the files of the upload that is edited while it is enriched: arrays of
\* records normalize accepts (R_love, R_bad) and rejects (R_blank, R_numtext)
MaxEdited == 2       \* elements of the JSON array of that upload
EditedFiles ==
    { JsonFile("list", es) :
        es \in SeqsUpTo({EntryDict(R_love), EntryDict(R_bad), EntryDict(R_blank),
                         EntryDict(R_numtext)}, MaxEdited) }
    \cup {F_csv, F_txt}

\* the bodies of the PUT requests
PostData ==
    { [keys |-> {"raw_text"}, raw_text |-> <<"e", "d", "i", "t", "e", "d">>, platform |-> Absent],
      [keys |-> {"platform"}, raw_text |-> <<>>, platform |-> Str(<<"t", "w", "i", "t", "t", "e", "r">>)] }

\* the files of the upload that runs next to the providers
ProviderFiles == {F_two, F_zip, F_txt}

\* the texts handed to the providers
ProviderTexts == {<<>>, <<"h", "i">>}

----------------------------------------------------------------------------
(* Specifications *)

NotRun == [res |-> "none", post |-> NoPost]
NotParsed == [status |-> "none", posts |-> <<>>]

InitStore ==
    /\ req = [r \in Reqs |-> IdleRequest]
    /\ mem = [r \in Reqs |-> <<>>]
    /\ uploads_coll = <<>>
    /\ posts_coll = <<>>
    /\ disk = {}
    /\ task = [r \in Reqs |-> NoTask]
    /\ faults = 0
    /\ deletes = 0
    /\ nlp_service = NoNlpService
    /\ cv_service = NoCvService

\* the normalizer on its own: a raw record is drawn, normalize is applied
InitNorm ==
    /\ rec \in RawRecords
    /\ now \in 1..MaxNow
    /\ out = NotRun
    /\ infile = NoFile
    /\ parsed = NotParsed
    /\ InitStore

\* normalized_post = normalize_post_data(post)
Normalize ==
    /\ out.res = "none"
    /\ out' = normalize_post_data(rec, now, Uuid(1))
    /\ UNCHANGED <<rec, infile, parsed, now, svars, mvars>>

NextNorm == Normalize

SpecNorm == InitNorm /\ [][NextNorm]_vars

\* the parsers on their own: a file is drawn, its parser is applied
InitParse ==
    /\ rec = EmptyRecord
    /\ out = NotRun
    /\ now \in 1..MaxNow
    /\ infile \in ParserFiles
    /\ parsed = NotParsed
    /\ InitStore

ParseJson ==
    /\ parsed.status = "none"
    /\ infile.ext = ".json"
    /\ parsed' = parse_json_file(infile, now, 0)
    /\ UNCHANGED <<rec, out, infile, now, svars, mvars>>

ParseCsv ==
    /\ parsed.status = "none"
    /\ infile.ext = ".csv"
    /\ parsed' = parse_csv_file(infile, now, 0)
    /\ UNCHANGED <<rec, out, infile, now, svars, mvars>>

ParseZip ==
    /\ parsed.status = "none"
    /\ infile.ext = ".zip"
    /\ parsed' = parse_zip_file(infile, now, 0)
    /\ UNCHANGED <<rec, out, infile, now, svars, mvars>>

NextParse == ParseJson \/ ParseCsv \/ ParseZip

SpecParse == InitParse /\ [][NextParse]_vars

\* the service: uploads, their background tasks, delete_post requests
Init ==
    /\ rec = EmptyRecord
    /\ out = NotRun
    /\ infile = NoFile
    /\ parsed = NotParsed
    /\ now = 1
    /\ InitStore

StoredIds == {posts_coll[i].post_id : i \in 1..Len(posts_coll)}

Next ==
    \/ \E r \in Reqs, f \in UploadFiles : UploadArrive(r, f)
    \/ \E r \in Reqs : UploadReject(r)
    \/ \E r \in Reqs : UploadSave(r)
    \/ \E r \in Reqs : UploadParse(r)
    \/ \E r \in Reqs : UploadInsertUpload(r)
    \/ \E r \in Reqs : UploadInsertPosts(r)
    \/ \E r \in Reqs : UploadAddTask(r)
    \/ \E r \in Reqs : UploadRespond(r)
    \/ \E r \in Reqs : TaskStart(r)
    \/ \E r \in Reqs : TaskPost(r)
    \/ \E r \in Reqs : TaskFinish(r)
    \/ \E id \in StoredIds : DeletePost(id)

Spec == Init /\ [][Next]_vars

\* one upload whose task is invoked again after it has finished; nothing else
\* writes to the store
NextRerun ==
    \/ \E f \in UploadFiles : UploadArrive(1, f)
    \/ UploadReject(1)
    \/ UploadSave(1)
    \/ UploadParse(1)
    \/ UploadInsertUpload(1)
    \/ UploadInsertPosts(1)
    \/ UploadAddTask(1)
    \/ UploadRespond(1)
    \/ TaskStart(1)
    \/ TaskPost(1)
    \/ TaskFinish(1)
    \/ TaskReinvoke(1)

SpecRerun == Init /\ [][NextRerun]_vars

\* ingest, enrichment and re-enrichment of every batch, interleaved
NextAll ==
    \/ \E r \in Reqs, f \in UploadFiles : UploadArrive(r, f)
    \/ \E r \in Reqs : UploadReject(r)
    \/ \E r \in Reqs : UploadSave(r)
    \/ \E r \in Reqs : UploadParse(r)
    \/ \E r \in Reqs : UploadInsertUpload(r)
    \/ \E r \in Reqs : UploadInsertPosts(r)
    \/ \E r \in Reqs : UploadAddTask(r)
    \/ \E r \in Reqs : UploadRespond(r)
    \/ \E r \in Reqs : TaskStart(r)
    \/ \E r \in Reqs : TaskPost(r)
    \/ \E r \in Reqs : TaskFinish(r)
    \/ \E r \in Reqs : TaskReinvoke(r)

SpecAll == Init /\ [][NextAll]_vars

\* one upload, its enrichment and re-enrichment, with PUT requests on its
\* posts and single-post jobs in between
NextEdit ==
    \/ \E f \in EditedFiles : UploadArrive(1, f)
    \/ UploadReject(1)
    \/ UploadSave(1)
    \/ UploadParse(1)
    \/ UploadInsertUpload(1)
    \/ UploadInsertPosts(1)
    \/ UploadAddTask(1)
    \/ UploadRespond(1)
    \/ TaskStart(1)
    \/ TaskError(1)
    \/ TaskPost(1)
    \/ TaskFinish(1)
    \/ TaskReinvoke(1)
    \/ \E id \in StoredIds, post_data \in PostData : UpdatePost(id, post_data)
    \/ \E id \in StoredIds : ProcessSinglePost(id)

SpecEdit == Init /\ [][NextEdit]_vars

\* a process that imports the provider modules and calls them, next to one
\* upload enriched by the worker
NextProviders ==
    \/ \E f \in ProviderFiles : UploadArrive(1, f)
    \/ UploadReject(1)
    \/ UploadSave(1)
    \/ UploadParse(1)
    \/ UploadInsertUpload(1)
    \/ UploadInsertPosts(1)
    \/ UploadAddTask(1)
    \/ UploadRespond(1)
    \/ TaskStart(1)
    \/ TaskPost(1)
    \/ TaskFinish(1)
    \/ ImportNlpService
    \/ \E outcome \in {"ok", "raises"} : ImportCvService(outcome)
    \/ \E text \in ProviderTexts, env \in LoadOutcomes, ans \in AnalyzerOutcomes :
          AnalyzeSentiment(text, env, ans)
    \/ \E text \in ProviderTexts, env \in LoadOutcomes : ExtractEntities(text, env)
    \/ ProcessImage

SpecProviders == Init /\ [][NextProviders]_vars

----------------------------------------------------------------------------
(* Properties *)

TextCandidates == {"raw_text", "text", "content", "message"}
SummaryFields == {"title", "description", "caption"}

\* a string with a character that is not white space
IsText(v) == v.kind = "str" /\ Strip(v.s) # <<>>

\* absent, or the empty string
IsEmpty(v) == v = Absent \/ v = Str(<<>>)

HasRun == out.res # "none"

\* the value parse_timestamp gets is one str.strptime cannot take
TimestampRaises(r) == Truthy(TimestampField(r)) /\ TimestampField(r).kind # "str"

\* the value parse_timestamp gets is absent, or is matched by none of the formats
NoKnownFormat(r) ==
    \/ \A k \in {"timestamp", "created_at", "date"} : r[k] = Absent
    \/ TimestampField(r).kind # "str"
    \/ /\ TimestampField(r).kind = "str"
       /\ \A k \in 1..Len(Formats) : Strptime(TimestampField(r).s, Formats[k]).err

\* C1 (as stated): a record with a non-empty value in one of raw_text, text,
\* content, message is never rejected: normalize returns a canonical post.
C1_NeverRejectsText ==
    (HasRun /\ \E k \in TextCandidates : IsText(rec[k])) => out.res = "post"

\* C2 (as stated): a record whose text candidates are all absent or empty and
\* that has no title, description or caption is rejected.
C2_TextlessRejected ==
    (HasRun /\ (\A k \in TextCandidates : IsEmpty(rec[k]))
                 /\ (\A k \in SummaryFields : rec[k] = Absent))
    => out.res = "rejected"

\* "Post from {platform} platform" spelled out: unknown when the key is absent,
\* None when it holds null
MinimalDescription(r) ==
    <<"P", "o", "s", "t", " ", "f", "r", "o", "m", " ">>
    \o (IF r["platform"] = Absent THEN <<"u", "n", "k", "n", "o", "w", "n">>
        ELSE IF r["platform"] = Null THEN <<"N", "o", "n", "e">>
        ELSE r["platform"].s)
    \o <<" ", "p", "l", "a", "t", "f", "o", "r", "m">>

\* C2 (amended): a record whose text candidates are all absent or empty and
\* that has no title, description or caption is not rejected for its lack of
\* text: normalize returns a post whose raw_text is "Post from {platform}
\* platform" (unknown when platform is absent); it is rejected only when its
\* timestamp value is one parse_timestamp raises on.
C2_TextlessGetsMinimalDescription ==
    (HasRun /\ (\A k \in TextCandidates : IsEmpty(rec[k]))
                 /\ (\A k \in SummaryFields : rec[k] = Absent))
    => IF TimestampRaises(rec) THEN out.res = "rejected"
       ELSE out.res = "post" /\ out.post.raw_text = MinimalDescription(rec)

\* C2 witness: raw_text "" and nothing else, platform absent: accepted as
\* "Post from unknown platform"
C2_Witness ==
    /\ rec = [EmptyRecord EXCEPT !["raw_text"] = Str(<<>>)]
    /\ out.res = "post"
    /\ out.post.raw_text = <<"P", "o", "s", "t", " ", "f", "r", "o", "m", " ",
                             "u", "n", "k", "n", "o", "w", "n", " ",
                             "p", "l", "a", "t", "f", "o", "r", "m">>

\* the posts the claim expects of a JSON array: those of the mappings normalize
\* accepts, the other entries dropped
RECURSIVE AcceptableEntries(_, _, _)
AcceptableEntries(entries, i, t) ==
    IF i > Len(entries) THEN <<>>
    ELSE (IF entries[i].kind = "dict"
          THEN PostIfAccepted(normalize_post_data(entries[i].rec, t, Uuid(i)))
          ELSE <<>>)
         \o AcceptableEntries(entries, i + 1, t)

\* C3 (as stated): a bad record in an otherwise valid JSON or CSV file does not
\* abort the file: the parser raises nothing and returns the posts of the
\* acceptable records.
C3_BadRecordDoesNotAbort ==
    /\ (parsed.status # "none" /\ infile.root \in {"list", "posts", "csv"})
          => parsed.status = "ok"
    /\ (parsed.status # "none" /\ infile.root \in {"list", "posts"})
          => parsed.posts = AcceptableEntries(infile.entries, 1, now)

\* C4 (as stated): a record with text whose timestamp value is absent or in
\* no known format is accepted, with the current time as its timestamp.
C4_TimestampNeverFails ==
    (HasRun /\ rec["raw_text"] = Str(<<"h", "i">>) /\ NoKnownFormat(rec))
    => out.res = "post" /\ out.post.timestamp = UtcNow(now)

PastParse(r) == req[r].pc \notin {"idle", "validate", "parse"}
ParseFailed(r) == PastParse(r) /\ ParseUpload(req[r].file, now, UuidBase(r)).status = "raised"

\* C5: when parsing the uploaded file fails, upload_file ends with an error
\* and nothing of the upload is in the store: no uploads document with its
\* file id, no post inserted by it, no background task added.
C5_ParseFailurePersistsNothing ==
    \A r \in Reqs :
        ParseFailed(r) =>
            /\ req[r].pc = "failed"
            /\ req[r].response.code = 400
            /\ \A i \in 1..Len(uploads_coll) : uploads_coll[i].file_id # req[r].file_id
            /\ \A i \in 1..Len(posts_coll) : posts_coll[i]._id.req # r
            /\ mem[r] = <<>>
            /\ task[r].pc = "none"

\* C5 witness: an upload whose archive cannot be opened has been answered
\* with 400 after its file was saved, while another upload has been stored
C5_Witness ==
    \E r \in Reqs :
        /\ req[r].file = F_badzip
        /\ req[r].pc = "failed"
        /\ req[r].file_id \in disk
        /\ uploads_coll # <<>>

\* C6: an exception while processing one post does not end the batch: a step
\* that logs an exception leaves the task running, on the next post, and the
\* posts collection as it was; the task ends only when every post of the list
\* has been either counted or logged.
C6_ExceptionDoesNotAbortBatch ==
    /\ [](\A r \in Reqs :
            task[r].pc = "done" =>
               /\ task[r].i = Len(mem[r]) + 1
               /\ task[r].processed_count + task[r].logged = Len(mem[r]))
    /\ [][\A r \in Reqs :
            task'[r].logged # task[r].logged =>
               /\ task'[r].pc = "running"
               /\ task'[r].i = task[r].i + 1
               /\ posts_coll' = posts_coll]_vars

IsEnriched(doc) == doc.cleaned_text # AAbsent

\* C6 witness: a batch of two has finished; its first post raised and its
\* document is as inserted, its second post was processed after that and its
\* document is enriched
C6_Witness ==
    \E r \in Reqs :
        /\ task[r].pc = "done"
        /\ Len(mem[r]) = 2
        /\ task[r].logged = 1
        /\ \E i, j \in 1..Len(posts_coll) :
              /\ posts_coll[i]._id = ObjectId(r, 1) /\ ~IsEnriched(posts_coll[i])
              /\ posts_coll[j]._id = ObjectId(r, 2) /\ IsEnriched(posts_coll[j])

EnrichmentOf(doc) ==
    <<doc.cleaned_text, doc.language, doc.entities, doc.sentiment, doc.sentiment_confidence>>

\* C7 (as stated): after a post has been processed without exception, the
\* posts collection holds a document with its post_id that carries its
\* enrichment fields, and no document has been added.
C7_UpsertStyleUpdate ==
    [][\A r \in Reqs :
         (task[r].pc = "running" /\ task'[r].processed_count = task[r].processed_count + 1)
         => /\ Len(posts_coll') = Len(posts_coll)
            /\ \E j \in 1..Len(posts_coll') :
                  /\ posts_coll'[j].post_id = mem'[r][task[r].i].post_id
                  /\ EnrichmentOf(posts_coll'[j]) = EnrichmentOf(mem'[r][task[r].i])]_vars

\* C8 (as stated): the processed_count a finished batch returns is the number
\* of its posts whose update reached the posts collection.
C8_CountsPersistedPosts ==
    \A r \in Reqs : task[r].pc = "done" => task[r].processed_count = task[r].matched

Rerunning == Len(task[1].results) >= 1

C10_ResponseBeforeEnrichment ==
    \A r \in Reqs :
        /\ task[r].pc \in {"running", "done"} =>
              req[r].pc = "done" /\ req[r].response.code = 200
        /\ req[r].pc = "return" => task[r].pc = "queued" /\ ENABLED UploadRespond(r)
        /\ req[r].pc \in {"idle", "validate", "parse", "insert_upload", "insert_posts",
                          "add_task", "failed"} => task[r].pc = "none"

\* C10 witness: a request has been answered with "processing" while its task
\* of two posts is still queued
C10_Witness ==
    \E r \in Reqs :
        /\ req[r].pc = "done"
        /\ req[r].response.processing_status = "processing"
        /\ req[r].response.total_posts = 2
        /\ task[r].pc = "queued"
        /\ \A i \in 1..Len(posts_coll) : ~IsEnriched(posts_coll[i])

\* C11 (as stated): the worker shares no mutable state with the request path:
\* no step of the background task changes the list posts that upload_file
\* holds or a dict in it.
C11_WorkerLeavesRequestPosts ==
    [][\A r \in Reqs : task[r].pc = "running" => mem'[r] = mem[r]]_vars

\* the place of a status on uploaded -> processing -> completed | error
StatusRank(s) ==
    CASE s = "uploaded" -> 1
      [] s = "processing" -> 2
      [] s \in {"completed", "error"} -> 3

DocsOf(file_id) == {i \in 1..Len(uploads_coll) : uploads_coll[i].file_id = file_id}

\* C12: the upload record of a batch is created once, when its request
\* stores it, and its stored status never goes back: at most one uploads
\* document has a given file id, a request past its insert has exactly one,
\* and every step leaves each stored document in place with a status that is
\* not earlier than before.
C12_UploadRecordOnceAndMonotonic ==
    /\ [](\A r \in Reqs :
            /\ Cardinality(DocsOf(Uuid(UuidBase(r)))) <= 1
            /\ req[r].pc \in {"insert_posts", "add_task", "return", "done"}
                  => Cardinality(DocsOf(req[r].file_id)) = 1)
    /\ [][/\ Len(uploads_coll') >= Len(uploads_coll)
          /\ \A i \in 1..Len(uploads_coll) :
                /\ uploads_coll'[i].file_id = uploads_coll[i].file_id
                /\ StatusRank(uploads_coll'[i].status) >= StatusRank(uploads_coll[i].status)]_vars

\* C12 witness: two batches have been stored and the task of one has been
\* invoked again and has finished a second time
C12_Witness ==
    /\ Len(uploads_coll) = 2
    /\ \E r \in Reqs :
          /\ Len(task[r].results) = 2
          /\ task[r].pc = "done"
          /\ Len(mem[r]) >= 1

Inserted(post) == post._id # NoId

\* C13 (as stated): the upload record and the accepted posts of a batch are
\* stored in one step: when a request has ended, in a response or in an error,
\* its upload record is in the store only if its accepted posts have been
\* inserted too.
C13_RecordAndPostsTogether ==
    \A r \in Reqs :
        (req[r].pc \in {"failed", "done"} /\ DocsOf(Uuid(UuidBase(r))) # {})
        => \A k \in 1..Len(mem[r]) : Inserted(mem[r][k])

\* C14 (as stated): no two posts accepted from one file have the same post_id.
C14_PostIdUniqueInBatch ==
    parsed.status = "ok" =>
        \A i, j \in 1..Len(parsed.posts) :
            i # j => parsed.posts[i].post_id # parsed.posts[j].post_id

\* C15 (as stated): the platform of an accepted post is the record's platform
\* when that is a recognized platform, and "unknown" when it is absent or not
\* recognized.
C15_PlatformDefaultsToUnknown ==
    out.res = "post" =>
        out.post.platform =
            (IF rec["platform"].kind = "str" /\ rec["platform"].s \in PlatformType
             THEN rec["platform"]
             ELSE Str(<<"u", "n", "k", "n", "o", "w", "n">>))

\* the keys the canonical fields are derived from; title, description and
\* caption are among them when they make the text
SynthesizesText(r) ==
    /\ \A k \in TextCandidates : ~Truthy(r[k])
    /\ \E k \in SummaryFields : Truthy(r[k])
DerivingKeys(r) ==
    {"platform", "post_id", "id", "raw_text", "text", "content", "message",
     "timestamp", "created_at", "date", "user_id", "author", "username",
     "media", "images", "videos"}
    \cup (IF SynthesizesText(r) THEN SummaryFields ELSE {})

\* C16 (as stated): the metadata of an accepted post holds exactly the keys of
\* the record that no canonical field is derived from, with their values.
C16_MetadataIsTheRemainder ==
    out.res = "post" =>
        \A k \in Keys :
            out.post.metadata[k] = (IF k \in DerivingKeys(rec) THEN Absent ELSE rec[k])

\* the value handed to parse_media: media, else images, else videos, else []
MediaField(r) ==
    IF r["media"] # Absent THEN r["media"]
    ELSE IF r["images"] # Absent THEN r["images"]
    ELSE IF r["videos"] # Absent THEN r["videos"]
    ELSE List(<<>>)

ImageOf(url) ==
    [type |-> AStr(<<"i", "m", "a", "g", "e">>), url |-> url, filename |-> AStr(<<>>),
     tags |-> NoTags, caption |-> AAbsent, similarity_score |-> AAbsent]

ExpectedItem(e) ==
    IF e.kind = "str" THEN ImageOf(AStr(e.s))
    ELSE [ImageOf(IF e.f.url # AAbsent THEN e.f.url
                  ELSE IF e.f.src # AAbsent THEN e.f.src ELSE AStr(<<>>))
            EXCEPT !.type = IF e.f.type # AAbsent THEN e.f.type ELSE @,
                   !.filename = IF e.f.filename # AAbsent THEN e.f.filename ELSE @]

IsDictOrString(e) == e.kind \in {"dict", "str"}

ExpectedMedia(v) ==
    IF v.kind = "list"
    THEN [i \in 1..Len(SelectSeq(v.items, IsDictOrString)) |->
             ExpectedItem(SelectSeq(v.items, IsDictOrString)[i])]
    ELSE IF v.kind = "str" /\ v.s # <<>> THEN <<ImageOf(AStr(v.s))>>
    ELSE <<>>

TimestampCases ==
    {
       [s |-> <<>>, now |-> TRUE, at |-> <<0, 0, 0, 0, 0, 0, 0>>],
       [s |-> <<"2", "0", "2", "4", "-", "0", "1", "-", "0", "2", "T", "0", "3", ":", "0", "4", ":", "0", "5", "Z">>, now |-> FALSE, at |-> <<2024, 1, 2, 3, 4, 5, 0>>],
       [s |-> <<"2", "0", "2", "4", "-", "0", "1", "-", "0", "2", "T", "0", "3", ":", "0", "4", ":", "0", "5", ".", "5", "Z">>, now |-> FALSE, at |-> <<2024, 1, 2, 3, 4, 5, 500000>>],
       [s |-> <<"2", "0", "2", "4", "-", "0", "1", "-", "0", "2", "T", "0", "3", ":", "0", "4", ":", "0", "5", ".", "1", "2", "3", "4", "5", "6", "Z">>, now |-> FALSE, at |-> <<2024, 1, 2, 3, 4, 5, 123456>>],
       [s |-> <<"2", "0", "2", "4", "-", "0", "1", "-", "0", "2", " ", "0", "3", ":", "0", "4", ":", "0", "5">>, now |-> FALSE, at |-> <<2024, 1, 2, 3, 4, 5, 0>>],
       [s |-> <<"2", "0", "2", "4", "-", "0", "1", "-", "0", "2">>, now |-> FALSE, at |-> <<2024, 1, 2, 0, 0, 0, 0>>],
       [s |-> <<"2", "0", "2", "4", "-", "1", "-", "2">>, now |-> FALSE, at |-> <<2024, 1, 2, 0, 0, 0, 0>>],
       [s |-> <<"2", "0", "2", "4", "-", "0", "2", "-", "2", "9">>, now |-> FALSE, at |-> <<2024, 2, 29, 0, 0, 0, 0>>],
       [s |-> <<"2", "0", "2", "3", "-", "0", "2", "-", "2", "9">>, now |-> TRUE, at |-> <<0, 0, 0, 0, 0, 0, 0>>],
       [s |-> <<"2", "0", "2", "4", "-", "0", "2", "-", "3", "0">>, now |-> TRUE, at |-> <<0, 0, 0, 0, 0, 0, 0>>],
       [s |-> <<"y", "e", "s", "t", "e", "r", "d", "a", "y">>, now |-> TRUE, at |-> <<0, 0, 0, 0, 0, 0, 0>>],
       [s |-> <<"2", "0", "2", "4", "-", "0", "1", "-", "0", "2", "T", "0", "3", ":", "0", "4", ":", "0", "5">>, now |-> TRUE, at |-> <<0, 0, 0, 0, 0, 0, 0>>],
       [s |-> <<"2", "0", "2", "4", "-", "0", "1", "-", "0", "2", "T", "0", "3", ":", "0", "4", ":", "0", "5", "+", "0", "0", ":", "0", "0">>, now |-> TRUE, at |-> <<0, 0, 0, 0, 0, 0, 0>>],
       [s |-> <<"2", "0", "2", "4", "-", "0", "1", "-", "0", "2", "t", "0", "3", ":", "0", "4", ":", "0", "5", "z">>, now |-> FALSE, at |-> <<2024, 1, 2, 3, 4, 5, 0>>],
       [s |-> <<"2", "0", "2", "4", "-", "0", "1", "-", "0", "2", " ", " ", "0", "3", ":", "0", "4", ":", "0", "5">>, now |-> FALSE, at |-> <<2024, 1, 2, 3, 4, 5, 0>>],
       [s |-> <<" ", "2", "0", "2", "4", "-", "0", "1", "-", "0", "2">>, now |-> TRUE, at |-> <<0, 0, 0, 0, 0, 0, 0>>],
       [s |-> <<"2", "0", "2", "4", "-", "0", "1", "-", "0", "2", " ">>, now |-> TRUE, at |-> <<0, 0, 0, 0, 0, 0, 0>>],
       [s |-> <<"0", "0", "0", "0", "-", "0", "1", "-", "0", "1">>, now |-> TRUE, at |-> <<0, 0, 0, 0, 0, 0, 0>>],
       [s |-> <<"2", "0", "2", "4", "-", "1", "3", "-", "0", "1">>, now |-> TRUE, at |-> <<0, 0, 0, 0, 0, 0, 0>>],
       [s |-> <<"2", "0", "2", "4", "-", "0", "1", "-", "0", "2", "T", "2", "4", ":", "0", "0", ":", "0", "0", "Z">>, now |-> TRUE, at |-> <<0, 0, 0, 0, 0, 0, 0>>],
       [s |-> <<"2", "0", "2", "4", "-", "0", "1", "-", "0", "2", "T", "0", "3", ":", "0", "4", ":", "6", "0", "Z">>, now |-> TRUE, at |-> <<0, 0, 0, 0, 0, 0, 0>>],
       [s |-> <<"2", "0", "2", "4", "-", "0", "1", "-", "0", "2", "T", "0", "3", ":", "0", "4", ":", "6", "1", "Z">>, now |-> TRUE, at |-> <<0, 0, 0, 0, 0, 0, 0>>],
       [s |-> <<"2", "0", "2", "4", "0", "1", "0", "2">>, now |-> TRUE, at |-> <<0, 0, 0, 0, 0, 0, 0>>],
       [s |-> <<"1", "7", "0", "0", "0", "0", "0", "0", "0", "0">>, now |-> TRUE, at |-> <<0, 0, 0, 0, 0, 0, 0>>],
       [s |-> <<"2", "0", "2", "4", "-", "0", "1", "-", "0", "2", "T", "0", "3", ":", "0", "4", ":", "0", "5", ".", "1", "2", "3", "4", "5", "6", "7", "Z">>, now |-> TRUE, at |-> <<0, 0, 0, 0, 0, 0, 0>>],
       [s |-> <<"2", "0", "2", "4", "-", "0", "1", "-", "0", "2", " ", "3", ":", "4", ":", "5">>, now |-> FALSE, at |-> <<2024, 1, 2, 3, 4, 5, 0>>],
       [s |-> <<"1", "2", "/", "3", "1", "/", "2", "0", "2", "4">>, now |-> TRUE, at |-> <<0, 0, 0, 0, 0, 0, 0>>],
       [s |-> <<"2", "0", "2", "4", "-", "0", "1", "-", "0", "2", "T", "0", "3", ":", "0", "4", ":", "0", "5", ".", "Z">>, now |-> TRUE, at |-> <<0, 0, 0, 0, 0, 0, 0>>],
       [s |-> <<"2", "0", "2", "4", "-", "0", "1", "-", "0", "2", "\t", "0", "3", ":", "0", "4", ":", "0", "5">>, now |-> FALSE, at |-> <<2024, 1, 2, 3, 4, 5, 0>>],
       [s |-> <<"2", "0", "2", "4", "-", "0", "0", "-", "1", "0">>, now |-> TRUE, at |-> <<0, 0, 0, 0, 0, 0, 0>>],
       [s |-> <<"2", "0", "2", "4", "-", "0", "1", "-", "0", "0">>, now |-> TRUE, at |-> <<0, 0, 0, 0, 0, 0, 0>>],
       [s |-> <<"2", "0", "2", "4", "-", "0", "1", "-", "3", "2">>, now |-> TRUE, at |-> <<0, 0, 0, 0, 0, 0, 0>>],
       [s |-> <<"0", "2", "0", "2", "4", "-", "0", "1", "-", "0", "2">>, now |-> TRUE, at |-> <<0, 0, 0, 0, 0, 0, 0>>],
       [s |-> <<"2", "0", "2", "4", "-", "0", "1", "-", "0", "2", "Z">>, now |-> TRUE, at |-> <<0, 0, 0, 0, 0, 0, 0>>]
    }

ExpectedTime(c, t) ==
    IF c.now THEN UtcNow(t)
    ELSE DateTime("parsed", c.at[1], c.at[2], c.at[3], c.at[4], c.at[5], c.at[6], c.at[7], 0)

\* C19: parse_timestamp never fails on a string: a record with text whose
\* timestamp value is a string is accepted, and its timestamp is the time
\* parsed by the first of the four formats that matches the string, or the
\* current time when the string is empty or matches none.
C19_TimestampTotalOnStrings ==
    (HasRun /\ rec["raw_text"] = Str(<<"h", "i">>) /\ TimestampField(rec).kind = "str")
    => /\ out.res = "post"
       /\ out.post.timestamp.kind \in {"parsed", "now"}
       /\ out.post.timestamp.kind = "now" => out.post.timestamp = UtcNow(now)
       /\ \A c \in TimestampCases :
             TimestampField(rec).s = c.s => out.post.timestamp = ExpectedTime(c, now)

\* C19 witness: the string 2024-1-2 under created_at has been parsed by the
\* fourth format
C19_Witness ==
    /\ rec["created_at"] = Str(<<"2", "0", "2", "4", "-", "1", "-", "2">>)
    /\ out.res = "post"
    /\ out.post.timestamp = DateTime("parsed", 2024, 1, 2, 0, 0, 0, 0, 0)

\* C18 (as stated): one corrupt data file in an archive does not abort the
\* archive: for an archive that can be opened and whose first member is a
\* valid JSON file with one post, parse_zip_file raises nothing and returns
\* that post, whatever its other member is.
C18_CorruptMemberDoesNotAbortZip ==
    (parsed.status # "none" /\ infile.ext = ".zip" /\ infile.root = "zip"
        /\ Len(infile.members) = 2)
    => /\ parsed.status = "ok"
       /\ Len(parsed.posts) >= 1
       /\ parsed.posts[1].post_id = <<"1">>
       /\ parsed.posts[1].raw_text = R_love["text"].s

Unsupported(r) == req[r].pc # "idle" /\ req[r].file.ext \notin {".json", ".csv", ".zip"}

\* C20: an upload whose extension is not .json, .csv or .zip ends with a 400
\* before any I/O: it gets no file id, no directory is made for it, no
\* uploads document and no post of it is stored, and no task is added.
C20_UnsupportedRejectedBeforeIO ==
    \A r \in Reqs :
        Unsupported(r) =>
            /\ req[r].pc \in {"validate", "failed"}
            /\ req[r].pc = "failed" => req[r].response.code = 400
            /\ req[r].file_id = <<>>
            /\ Uuid(UuidBase(r)) \notin disk
            /\ DocsOf(Uuid(UuidBase(r))) = {}
            /\ \A i \in 1..Len(posts_coll) : posts_coll[i]._id.req # r
            /\ mem[r] = <<>>
            /\ task[r].pc = "none"

\* C20 witness: a .txt upload has been answered with 400 while another upload
\* has been saved and stored
C20_Witness ==
    \E r \in Reqs :
        /\ req[r].file = F_txt
        /\ req[r].pc = "failed"
        /\ req[r].response.code = 400
        /\ disk # {}
        /\ posts_coll # <<>>

\* the uploads documents of request r and how many posts documents it inserted
BatchRecords(r) == {i \in 1..Len(uploads_coll) : uploads_coll[i].file_id = req[r].file_id}
Persisted(r) == Cardinality({i \in 1..Len(posts_coll) : posts_coll[i]._id.req = r})

\* the file is a JSON array of mappings
ArrayOfRecords(f) ==
    f.ext = ".json" /\ f.root = "list" /\ \A i \in 1..Len(f.entries) : f.entries[i].kind = "dict"

\* how many records of the array normalize accepts
AcceptedCount(f, t) == Len(AcceptableEntries(f.entries, 1, t))

\* C21 (as stated): the response of an upload has processing_status
\* "processing" and a total_posts that is the number of accepted posts, the
\* number of posts documents of the upload and the total_posts of its uploads
\* document; a record normalize rejects is no error, it only lowers the count:
\* an array of records is answered with the count of its accepted records.
C21_ResponseCountsAcceptedPosts ==
    \A r \in Reqs :
        /\ req[r].pc = "done" =>
              /\ req[r].response.processing_status = "processing"
              /\ req[r].response.total_posts = Len(mem[r])
              /\ req[r].response.total_posts = Persisted(r)
              /\ \A i \in BatchRecords(r) :
                    uploads_coll[i].total_posts = req[r].response.total_posts
        /\ (PastParse(r) /\ ArrayOfRecords(req[r].file)) =>
              /\ req[r].response.code # 400
              /\ Len(mem[r]) = AcceptedCount(req[r].file, now)

\* the first of raw_text, text, content, message that has a value
HasValue(v) == Truthy(v)
TextChain == <<"raw_text", "text", "content", "message">>
SummaryChain == <<"title", "description", "caption">>
FirstWithValue(r) == CHOOSE i \in 1..Len(TextChain) :
                        /\ HasValue(r[TextChain[i]])
                        /\ \A j \in 1..(i - 1) : ~HasValue(r[TextChain[j]])

\* the ones of title, description, caption that have a value, in that order
PresentSummary(r) == SelectSeq(SummaryChain, LAMBDA k : HasValue(r[k]))

\* the text the fallback chain gives
ChainText(r) ==
    IF \E i \in 1..Len(TextChain) : HasValue(r[TextChain[i]])
    THEN r[TextChain[FirstWithValue(r)]]
    ELSE IF PresentSummary(r) # <<>>
         THEN Str(Join(<<" ", "|", " ">>,
                       [i \in 1..Len(PresentSummary(r)) |-> PyStr(r[PresentSummary(r)[i]])]))
    ELSE Str(MinimalDescription(r))

\* C22 (as stated): the text of a record is the first of raw_text, text,
\* content, message that has a value; if none has one, the ones of title,
\* description, caption that are present, joined in that order with " | "; if
\* there is none either, "Post from {platform} platform".  Checked on the records
\* for which that text is a string with a character that is not white space and
\* the timestamp value is one parse_timestamp takes.
C22_TextFallbackChain ==
    (HasRun /\ ~TimestampRaises(rec) /\ IsText(ChainText(rec)))
    => out.res = "post" /\ out.post.raw_text = ChainText(rec).s

\* the file of request r was parsed and none of its records was accepted
ZeroAccepted(r) ==
    /\ PastParse(r)
    /\ ~Unsupported(r)
    /\ ParseUpload(req[r].file, now, UuidBase(r)) = Returned(<<>>)

PastInsertUpload(r) == req[r].pc \in {"insert_posts", "add_task", "return", "done"}

\* C23: an upload of which no post is accepted is no error: it is answered
\* with 200 and total_posts 0 (with 500 only when the store fails, never with
\* 400), its uploads document is stored with total_posts 0, no post of it is in
\* the posts collection, and its enrichment job writes nothing and returns
\* completed with processed_count 0 (error only when the store is unavailable).
C23_EmptyUploadSucceeds ==
    /\ [](\A r \in Reqs :
            ZeroAccepted(r) =>
               /\ req[r].response.code # 400
               /\ req[r].pc = "failed" => (req[r].response.code = 500 /\ faults > 0)
               /\ req[r].pc = "done" =>
                     (req[r].response.code = 200 /\ req[r].response.total_posts = 0)
               /\ PastInsertUpload(r) =>
                     /\ Cardinality(BatchRecords(r)) = 1
                     /\ \A i \in BatchRecords(r) : uploads_coll[i].total_posts = 0
               /\ Persisted(r) = 0
               /\ task[r].matched = 0 /\ task[r].logged = 0
               /\ \A k \in 1..Len(task[r].results) :
                     /\ task[r].results[k].processed_count = 0
                     /\ task[r].results[k].status = "completed" \/ faults > 0)
    /\ [][\A r \in Reqs :
            (ZeroAccepted(r) /\ task'[r] # task[r]) =>
               (posts_coll' = posts_coll /\ uploads_coll' = uploads_coll)]_vars

\* C23 witness: an array whose only record was rejected has been answered with
\* 200 and total_posts 0, its uploads document is stored, and its job has
\* returned completed with processed_count 0
C23_Witness ==
    /\ req[1].file = JsonFile("list", <<EntryDict(R_blank)>>)
    /\ req[1].pc = "done"
    /\ req[1].response.code = 200
    /\ req[1].response.total_posts = 0
    /\ Len(uploads_coll) = 1
    /\ uploads_coll[1].total_posts = 0
    /\ posts_coll = <<>>
    /\ task[1].pc = "done"
    /\ task[1].results = <<[status |-> "completed", processed_count |-> 0]>>

\* C24 (as stated): the models of the providers are loaded lazily and once per
\* process: no model is loaded before the first call of a method of its
\* service, and once a service has made its first attempt to load its models,
\* no later step makes another.
C24_ModelsLoadedLazilyOnce ==
    /\ [](cv_service.loads > 0 => cv_service.calls > 0)
    /\ [](nlp_service.attempts > 0 => nlp_service.calls > 0)
    /\ [][cv_service.loads > 0 => cv_service'.loads = cv_service.loads]_vars
    /\ [][nlp_service.attempts > 0 => nlp_service'.attempts = nlp_service.attempts]_vars

\* a confidence between 0.0 and 1.0, in hundredths
Confidences == 0..100

\* C25: every document of the posts collection that has a sentiment has one
\* of the labels positive, negative, neutral and a sentiment_confidence
\* between 0.0 and 1.0, and so has every result of analyze_sentiment of the
\* NLP service, on its error and model-unavailable paths too.
C25_SentimentWellFormed ==
    /\ \A i \in 1..Len(posts_coll) :
          posts_coll[i].sentiment # AAbsent =>
             /\ posts_coll[i].sentiment.kind = "str"
             /\ posts_coll[i].sentiment.s \in SentimentType
             /\ posts_coll[i].sentiment_confidence.kind = "num"
             /\ posts_coll[i].sentiment_confidence.n \in Confidences
    /\ nlp_service.last # NoSentiment =>
          /\ nlp_service.last.sentiment \in SentimentType
          /\ nlp_service.last.confidence \in Confidences

\* C25 witness: the worker has stored a positive and a negative post with
\* confidence 0.7, and the NLP service, its model loaded, has answered a label
\* that is neither POSITIVE nor NEGATIVE with neutral
C25_Witness ==
    /\ \E i \in 1..Len(posts_coll) :
          /\ posts_coll[i].sentiment = AStr(<<"p", "o", "s", "i", "t", "i", "v", "e">>)
          /\ posts_coll[i].sentiment_confidence.n = 70
    /\ \E i \in 1..Len(posts_coll) :
          posts_coll[i].sentiment = AStr(<<"n", "e", "g", "a", "t", "i", "v", "e">>)
    /\ nlp_service.sentiment_analyzer
    /\ nlp_service.last = SentimentResult(<<"n", "e", "u", "t", "r", "a", "l">>, 100)

\* the fields of a document that are not enrichment fields
SourceFields(doc) ==
    <<doc.platform, doc.post_id, doc.raw_text, doc.timestamp, doc.user_id, doc.metadata>>

\* the media items of a document without the annotations of its images
MediaFrame(doc) ==
    [j \in 1..Len(doc.media) |->
        IF doc.media[j].type = AStr(S_image)
        THEN MediaItem(doc.media[j].type, doc.media[j].url, doc.media[j].filename)
        ELSE doc.media[j]]

\* a step in which a task counts a post: its update_one went through
EnrichmentWrite == \E r \in Reqs : task'[r].processed_count = task[r].processed_count + 1

\* C26 (as stated): the enrichment write of a post changes only enrichment
\* fields and the annotations of image media items: no document is added or
\* removed, and platform, post_id, raw_text, timestamp, user_id, metadata, the
\* number and order of the media items and the media items that are no images
\* are in every document what they were just before the write, also when a
\* PUT on that post_id came between ingest and the write.
C26_EnrichmentFrame ==
    [][EnrichmentWrite =>
          /\ Len(posts_coll') = Len(posts_coll)
          /\ \A i \in 1..Len(posts_coll) :
                /\ SourceFields(posts_coll'[i]) = SourceFields(posts_coll[i])
                /\ MediaFrame(posts_coll'[i]) = MediaFrame(posts_coll[i])]_vars

\* a step of upload_file over its insert_one (upload.py:72)
IngestInsert == \E r \in Reqs : req[r].pc = "insert_upload" /\ req'[r].pc = "insert_posts"

\* C27: nothing writes the uploads collection after upload_file has
\* inserted the batch record: only that insert changes the collection, a stored
\* record is never changed or removed, and in every state, also after the
\* enrichment of the batch has returned completed or error, the status of every
\* stored record is "uploaded".
C27_UploadStatusStaysUploaded ==
    /\ [](\A i \in 1..Len(uploads_coll) : uploads_coll[i].status = "uploaded")
    /\ [][uploads_coll' # uploads_coll => IngestInsert]_vars
    /\ [][/\ Len(uploads_coll') >= Len(uploads_coll)
          /\ \A i \in 1..Len(uploads_coll) : uploads_coll'[i] = uploads_coll[i]]_vars

\* C27 witness: the job of a batch of two posts has returned error and then,
\* invoked again, completed with both posts processed; the record of the batch
\* has status uploaded
C27_Witness ==
    /\ Len(mem[1]) = 2
    /\ task[1].pc = "done"
    /\ task[1].results = <<[status |-> "error", processed_count |-> 0],
                           [status |-> "completed", processed_count |-> 2]>>
    /\ Len(uploads_coll) = 1
    /\ uploads_coll[1].file_id = req[1].file_id
    /\ uploads_coll[1].status = "uploaded"

====
